---------------------------- MODULE Spec2Model ----------------------------
(***************************************************************************)
(* A model of the e-commerce pipeline of dynamodb-pract:                   *)
(*   - the cleaning stages of data_cleaning.py as main.clean_data runs     *)
(*     them,                                                               *)
(*   - the aggregator and loader of dynamodb/dynamo_loader.py writing to a *)
(*     table whose primary key is InvoiceNo (dynamodb/dynamo_client.py),   *)
(*   - the paginated access engine of analityics/base/query_base.py, the   *)
(*     query functions of analityics/queries/ built on it and the older    *)
(*     query functions of analityics/query.py that main imports.           *)
(*                                                                         *)
(* Representation.  A DataFrame is [columns, rows]; a row is a function    *)
(* from column names to cells.  Text cells are strings; a missing text     *)
(* cell is NULL, a float NaN, and None is PyNone.  Numeric cells are       *)
(* [k, v]: k is the Python type of the value ("int", "float", "nan" for a  *)
(* float NaN, "str" for text that is not a number, "Decimal") and v its    *)
(* value; money is counted in cents so that sums and products are exact.   *)
(* A customer id is a numeric cell until .astype(str) makes text of it: an  *)
(* int in a column that has no blank, a float beside a blank, [k |-> "str", *)
(* v |-> the text] in a column of text; its blank is the float NaN.         *)
(* A float whose digits matter is a "double", given by its bits: an odd    *)
(* mantissa m and an exponent e, the float m * 2^e.  A parsed date is      *)
(* [k, d, t] (day and                                                      *)
(* time of day); an ISO-8601 string is the tuple <<d, t>>, a date-only     *)
(* string is <<d>>, and strings are compared as DynamoDB compares them,    *)
(* position by position, a proper prefix being smaller.                    *)
(***************************************************************************)
EXTENDS Integers, Sequences, FiniteSets, TLC

VARIABLES
    raw,        \* the DataFrame load_data_from_s3 returned (never changed)
    df,         \* main's df, rebound by every cleaning stage
    pc,         \* position of main's pipeline
    items,      \* load_orders_to_dynamodb: the prepared items
    next_item,  \* load_orders_to_dynamodb: enumerate's position in items
    loads,      \* how many times load_orders_to_dynamodb was called
    store,      \* the DynamoDB table: a sequence of items, one per InvoiceNo
    first_load, \* the table as the first completed load left it
    log,        \* what was printed: clean_dates' warning, the loader's report
    call,       \* the analytics call in progress: function and arguments
    qpc,        \* its position: "idle", "fetching", "returned"
    kwargs,     \* the scan_kwargs / query_kwargs of the call
    acc,        \* the local list `items` of the call
    start_key,  \* the local `start_key` of the call
    pages,      \* the Items of every response the call received, in order
    requests,   \* the requests of the call: cursor sent, cursor received
    outcome,    \* "none", "done" (loop left by break) or "error" (except)
    result,     \* the list the call returned
    other       \* the locals of a second invocation, which is not running

pipeVars  == <<raw, df, pc, items, next_item, loads, first_load, log>>
queryVars == <<call, qpc, kwargs, acc, start_key, pages, requests, outcome,
               result, other>>
vars      == <<raw, df, pc, items, next_item, loads, store, first_load, log,
               call, qpc, kwargs, acc, start_key, pages, requests, outcome,
               result, other>>

----------------------------------------------------------------------------
(* Bounds of the model *)

MaxRows == 2
MaxLoads == 2
MaxPage == 2
FracBits == 3
MaxFloat == 4
MaxBulk == 26

----------------------------------------------------------------------------
(* Cells *)

\* A missing cell of a text column: the float NaN that read_csv leaves, or
\* None.  Decimal('NaN') is what the loader makes of the NaN.
NULL == "NaN"
PyNone == "None"
DecimalNaNText == "Decimal('NaN')"

\* The same three in InvoiceDate, whose strings are tuples of numbers
NaNDate == <<>>
NoneDate == <<-1>>
DecimalNaNDate == <<-2>>

PyInt(n) == [k |-> "int", v |-> n]
PyFloat(n) == [k |-> "float", v |-> n]
Decimal(n) == [k |-> "Decimal", v |-> n]
NaN == [k |-> "nan", v |-> 0]
Text == [k |-> "str", v |-> 0]
DecimalNaN == [k |-> "DecimalNaN", v |-> 0]
Timestamp(d, t) == [k |-> "datetime", d |-> d, t |-> t]
NaT == [k |-> "nat", d |-> 0, t |-> 0]

Range(s) == {s[i] : i \in DOMAIN s}

RECURSIVE Concat(_)
Concat(ss) == IF ss = <<>> THEN <<>> ELSE Head(ss) \o Concat(Tail(ss))

RECURSIVE SumSeq(_)
SumSeq(s) == IF s = <<>> THEN 0 ELSE Head(s) + SumSeq(Tail(s))

----------------------------------------------------------------------------
(* data_cleaning.py *)

LowerStrip(c) ==
    CASE c = "InvoiceNo" -> "invoiceno"
      [] c = "StockCode" -> "stockcode"
      [] c = "Quantity" -> "quantity"
      [] c = "InvoiceDate" -> "invoicedate"
      [] c = "UnitPrice" -> "unitprice"
      [] c = "CustomerID" -> "customerid"
      [] c = "Country" -> "country"
      [] OTHER -> c

\* the frame d with every column c named names[c] instead
RenameColumns(d, names) ==
    LET cols == {names[c] : c \in d.columns}
        old == [n \in cols |-> CHOOSE c \in d.columns : names[c] = n]
        ren(r) == [n \in cols |-> r[old[n]]]
    IN  [columns |-> cols, rows |-> [i \in DOMAIN d.rows |-> ren(d.rows[i])]]

clean_columns(d) == RenameColumns(d, [c \in d.columns |-> LowerStrip(c)])

to_datetime(s) ==
    CASE s = "12/1/2010 8:26" -> Timestamp(1, 0)
      [] s = "12/1/2010 9:02" -> Timestamp(1, 1)
      [] s = "12/2/2010 8:26" -> Timestamp(2, 0)
      [] OTHER -> NaT

\* print(f"Warning: Column '{column}' not found. ...")
clean_dates_prints(d, column) ==
    IF column \notin d.columns THEN <<"Warning: Column not found">> ELSE <<>>

clean_dates_strict(d, column) ==
    IF column \notin d.columns
    THEN [d EXCEPT !.rows = <<>>]
    ELSE LET conv == [i \in DOMAIN d.rows |->
                         [d.rows[i] EXCEPT ![column] = to_datetime(@)]]
             keep(r) == r[column] # NaT
         IN  [d EXCEPT !.rows = SelectSeq(conv, keep)]

clean_dates(d, column) ==
    IF column \notin d.columns
    THEN d
    ELSE LET conv == [i \in DOMAIN d.rows |->
                         [d.rows[i] EXCEPT ![column] = to_datetime(@)]]
             keep(r) == r[column] # NaT
         IN  [d EXCEPT !.rows = SelectSeq(conv, keep)]

\* pd.to_numeric(errors="coerce") on one column: text becomes NaN, and a column
\* holding a NaN or a float is a float column.
to_numeric(d, col) ==
    LET isFloat == \E i \in DOMAIN d.rows : d.rows[i][col].k # "int"
        conv(r) ==
            [r EXCEPT ![col] =
                IF @.k \in {"str", "nan"} THEN NaN
                ELSE IF isFloat THEN PyFloat(@.v) ELSE @]
    IN  [d EXCEPT !.rows = [i \in DOMAIN d.rows |-> conv(d.rows[i])]]

RECURSIVE to_numeric_all(_, _)
to_numeric_all(d, columns) ==
    IF columns = <<>> THEN d
    ELSE to_numeric_all(to_numeric(d, Head(columns)), Tail(columns))

clean_numeric_all(d, columns) ==
    LET conv == to_numeric_all(d, columns)
        keep(r) == \E c \in Range(columns) : r[c] # NaN
    IN  [conv EXCEPT !.rows = SelectSeq(conv.rows, keep)]

clean_numeric(d, columns) ==
    LET conv == to_numeric_all(d, columns)
        keep(r) == \A c \in Range(columns) : r[c] # NaN
    IN  [conv EXCEPT !.rows = SelectSeq(conv.rows, keep)]

remove_invalid_sales_or(d, quantity_col, price_col) ==
    IF quantity_col \in d.columns /\ price_col \in d.columns
    THEN LET keep(r) == r[quantity_col].v > 0 \/ r[price_col].v > 0
         IN  [d EXCEPT !.rows = SelectSeq(d.rows, keep)]
    ELSE d

remove_invalid_sales_ge(d, quantity_col, price_col) ==
    IF quantity_col \in d.columns /\ price_col \in d.columns
    THEN LET keep(r) == r[quantity_col].v >= 0 /\ r[price_col].v >= 0
         IN  [d EXCEPT !.rows = SelectSeq(d.rows, keep)]
    ELSE d

remove_invalid_sales(d, quantity_col, price_col) ==
    IF quantity_col \in d.columns /\ price_col \in d.columns
    THEN LET keep(r) == r[quantity_col].v > 0 /\ r[price_col].v > 0
         IN  [d EXCEPT !.rows = SelectSeq(d.rows, keep)]
    ELSE d

Product(q, p) ==
    IF q.k = "int" /\ p.k = "int" THEN PyInt(q.v * p.v) ELSE PyFloat(q.v * p.v)

add_total_amount_keep(d, quantity_col, price_col) ==
    IF quantity_col \in d.columns /\ price_col \in d.columns
          /\ "total_amount" \notin d.columns
    THEN LET cols == d.columns \cup {"total_amount"}
             add(r) == [c \in cols |->
                          IF c = "total_amount"
                          THEN Product(r[quantity_col], r[price_col])
                          ELSE r[c]]
         IN  [columns |-> cols, rows |-> [i \in DOMAIN d.rows |-> add(d.rows[i])]]
    ELSE d

add_total_amount(d, quantity_col, price_col) ==
    IF quantity_col \in d.columns /\ price_col \in d.columns
    THEN LET cols == d.columns \cup {"total_amount"}
             add(r) == [c \in cols |->
                          IF c = "total_amount"
                          THEN Product(r[quantity_col], r[price_col])
                          ELSE r[c]]
         IN  [columns |-> cols, rows |-> [i \in DOMAIN d.rows |-> add(d.rows[i])]]
    ELSE d

----------------------------------------------------------------------------
(* dynamodb/dynamo_loader.py *)

NumericAttrs == {"Quantity", "TotalAmount", "UnitPrice"}

(* A Python float is an IEEE double: a whole number of at most 53 bits     *)
(* times a power of two.  A decimal numeral [n, d] is n / 10^d written     *)
(* with d digits after the point.  float() of a numeral, str() of a double *)
(* and Decimal() of a double are computed on the double's bits.            *)

\* Whole numbers of any size, as the integers of the model end at 2^31: the limbs of the
\* number in base 10000, the lowest first; zero has no limb.
Base == 10000

RECURSIVE BigOf(_)
BigOf(i) == IF i = 0 THEN <<>> ELSE <<i % Base>> \o BigOf(i \div Base)

\* a * c + carry, for a small c
RECURSIVE MulSmall(_, _, _)
MulSmall(a, c, carry) ==
    IF a = <<>> THEN BigOf(carry)
    ELSE LET t == Head(a) * c + carry
         IN  <<t % Base>> \o MulSmall(Tail(a), c, t \div Base)

\* a \div c, for a small c: the limbs from the highest down, each with what
\* the limbs above it left
DivSmall(a, c) ==
    LET RECURSIVE DivFrom(_, _)
        DivFrom(i, rem) ==
            IF i = 0 THEN <<>>
            ELSE LET t == rem * Base + a[i]
                 IN  Append(DivFrom(i - 1, t % c), t \div c)
        q == DivFrom(Len(a), 0)
    IN  IF q # <<>> /\ q[Len(q)] = 0 THEN SubSeq(q, 1, Len(q) - 1) ELSE q

\* a < b
Less(a, b) ==
    LET RECURSIVE LessFrom(_)
        LessFrom(i) ==
            IF i = 0 THEN FALSE
            ELSE IF a[i] # b[i] THEN a[i] < b[i]
            ELSE LessFrom(i - 1)
    IN  IF Len(a) # Len(b) THEN Len(a) < Len(b) ELSE LessFrom(Len(a))

\* a * c^k for c = 2, 5 or 10, four factors at a time
RECURSIVE Scale(_, _, _)
Scale(a, c, k) ==
    IF k = 0 \/ a = <<>> THEN a
    ELSE IF k >= 4 THEN Scale(MulSmall(a, c * c * c * c, 0), c, k - 4)
    ELSE Scale(MulSmall(a, c, 0), c, k - 1)

\* a / 10^d rounded to the nearest whole number, a tie to the even one
RoundHalfEven(a, d) ==
    IF d = 0 THEN a
    ELSE LET x == Scale(a, 10, (4 - (d % 4)) % 4)
             q == (d + 3) \div 4
             quot == SubSeq(x, q + 1, Len(x))
             top == IF Len(x) >= q THEN x[q] ELSE 0
             below == \E i \in 1..(q - 1) : i <= Len(x) /\ x[i] # 0
             odd == quot # <<>> /\ quot[1] % 2 = 1
             up == \/ 2 * top > Base
                   \/ 2 * top = Base /\ (below \/ odd)
         IN  IF up THEN MulSmall(quot, 1, 1) ELSE quot

\* A double is m * 2^e, m odd: float.as_integer_ratio() of it, (m, 2^-e) or
\* (m * 2^e, 1).  Zero is m = 0.  The floats of the records are not negative.
Double(m, e) == [k |-> "double", m |-> m, e |-> e]

\* m * 2^e with the twos of m moved to the exponent; Base is 16 * 625, so
\* sixteen divides m when it divides the lowest limb
RECURSIVE Reduced(_, _)
Reduced(m, e) ==
    IF m = <<>> THEN Double(<<>>, 0)
    ELSE IF m[1] % 16 = 0 THEN Reduced(DivSmall(m, 16), e + 4)
    ELSE IF m[1] % 2 = 0 THEN Reduced(DivSmall(m, 2), e + 1)
    ELSE Double(m, e)

\* 2^52: a mantissa of 53 bits is this at least
Two52 == Scale(<<1>>, 2, 52)

\* the least k for which a * 2^k reaches bound, with a * 2^k; it is looked
\* for in steps of 13 bits, then of 4, then of 1
RECURSIVE ScaleUpTo(_, _, _, _)
ScaleUpTo(a, k, bound, step) ==
    IF ~Less(a, bound) THEN [n |-> a, k |-> k]
    ELSE LET b == MulSmall(a, IF step = 13 THEN 8192 ELSE IF step = 4 THEN 16 ELSE 2, 0)
         IN  IF step = 1 \/ Less(b, bound)
             THEN ScaleUpTo(b, k + step, bound, step)
             ELSE ScaleUpTo(a, k, bound, IF step > 4 THEN 4 ELSE 1)

\* float(s) of the decimal numeral s = n / 10^d, below 2^52: the double
\* nearest to it.  n * 2^k / 10^d is brought to 53 bits and rounded, a tie to
\* the even mantissa.
float_of(s) ==
    IF s.n = <<>> THEN Double(<<>>, 0)
    ELSE LET up == ScaleUpTo(s.n, 0, Scale(Two52, 10, s.d), 13)
         IN  Reduced(RoundHalfEven(up.n, s.d), 0 - up.k)

\* The double mm / 2^FracBits, a float given by its bits.
BinFloat(mm) == Reduced(BigOf(mm), 0 - FracBits)

\* 2 * x of a double: the exponent is one more
TwiceFloat(x) == IF x.m = <<>> THEN x ELSE Double(x.m, x.e + 1)

\* The value of the double x, digit for digit: m * 5^-e / 10^-e.  It is what
\* Decimal(x) gives.
decimal_from_float(x) ==
    IF x.e >= 0 THEN [n |-> Scale(x.m, 2, x.e), d |-> 0]
    ELSE [n |-> Scale(x.m, 5, 0 - x.e), d |-> 0 - x.e]

\* the numeral of d fractional digits nearest to the numeral s
Rounded(s, d) ==
    [n |-> IF d >= s.d THEN Scale(s.n, 10, d - s.d) ELSE RoundHalfEven(s.n, s.d - d),
     d |-> d]

\* str(v) of a float between 0.0001 and 10^16: the shortest numeral that
\* float() reads back as v, with one digit after the point at least.  It is
\* looked for among the numerals nearest to the value of v, from one digit up.
float_str(x) ==
    LET s == decimal_from_float(x)
        RECURSIVE ShortestFrom(_)
        ShortestFrom(d) ==
            IF d >= s.d \/ float_of(Rounded(s, d)) = x THEN Rounded(s, d)
            ELSE ShortestFrom(d + 1)
    IN  ShortestFrom(1)

\* Decimal(s) of a numeral: the number it writes, digit for digit
DecimalOfStr(s) == [k |-> "Decimal", n |-> s.n, e |-> s.d]

\* Decimal(v) in the place of Decimal(str(v))
convert_value_exact(c, v) ==
    IF c \in NumericAttrs
    THEN CASE v.k = "float" -> Decimal(v.v)
           [] v.k = "double" -> DecimalOfStr(decimal_from_float(v))
           [] v.k = "nan" -> DecimalNaN
           [] OTHER -> v
    ELSE IF c = "InvoiceDate"
         THEN IF v = NaNDate THEN DecimalNaNDate ELSE v
         ELSE IF v = NULL THEN DecimalNaNText ELSE v

\* isinstance(v, float) -> Decimal(str(v)), under every key; everything else,
\* None too, stays as it is.  A missing cell read from the file is a float
\* NaN, also in a text column and in InvoiceDate.  PyFloat(n) names a float
\* by its value in hundredths, and the Decimal of its string form is
\* Decimal(n); for a Double the string is computed from its bits.
convert_value(c, v) ==
    IF c \in NumericAttrs
    THEN CASE v.k = "float" -> Decimal(v.v)
           [] v.k = "double" -> DecimalOfStr(float_str(v))
           [] v.k = "nan" -> DecimalNaN
           [] OTHER -> v
    ELSE IF c = "InvoiceDate"
         THEN IF v = NaNDate THEN DecimalNaNDate ELSE v
         ELSE IF v = NULL THEN DecimalNaNText ELSE v

convert_float_to_decimal_none(item) == item

convert_float_to_decimal(item) ==
    [c \in DOMAIN item |-> convert_value(c, item[c])]

column_map(c) ==
    CASE c = "invoiceno" -> "InvoiceNo"
      [] c = "stockcode" -> "StockCode"
      [] c = "invoicedate" -> "InvoiceDate"
      [] c = "country" -> "Country"
      [] c = "customerid" -> "CustomerID"
      [] c = "total_amount" -> "TotalAmount"
      [] c = "quantity" -> "Quantity"
      [] c = "unitprice" -> "UnitPrice"
      [] OTHER -> c

\* .dt.strftime('%Y-%m-%dT%H:%M:%S'); NaT gives NaN
strftime(ts) == IF ts.k = "datetime" THEN <<ts.d, ts.t>> ELSE NaNDate

\* Invoice numbers as the file has them, for a load of more items than the
\* batch writer holds
BulkKeys ==
    <<"536365", "536366", "536367", "536368", "536369", "536370", "536371",
      "536372", "536373", "536374", "536375", "536376", "536377", "536378",
      "536379", "536380", "536381", "536382", "536383", "536384", "536385",
      "536386", "536387", "536388", "536389", "536390", "536391", "536392",
      "536393", "536394">>

\* The values of the grouping keys in ascending order: groupby sorts its groups.
InvoiceOrder == BulkKeys \o <<"A", "B", "nan">>
StockOrder == <<"X", "Y">>

GroupKeys ==
    [i \in 1..(Len(InvoiceOrder) * Len(StockOrder)) |->
        <<InvoiceOrder[((i - 1) \div Len(StockOrder)) + 1],
          StockOrder[((i - 1) % Len(StockOrder)) + 1]>>]

AggSum_first(g, c) == g[1][c]

\* 'sum' of a numeric column over a group, NaN skipped: an int where the
\* cells are ints, and a float, 0.0 for a group of NaN, where the column is of
\* floats
AggSum(g, c) ==
    LET cells == SelectSeq([i \in DOMAIN g |-> g[i][c]], LAMBDA x : x.k # "nan")
    IN  [k |-> IF \A i \in DOMAIN g : g[i][c].k = "int" THEN "int" ELSE "float",
         v |-> SumSeq([i \in DOMAIN cells |-> cells[i].v])]

\* What 'first' gives for a group that has no value in a text column: None
\* where the column is of dtype object, NaN where it is of a string dtype.
\* The repository pins no pandas version, and the two differ between versions.
FirstNulls == {"None", "NaN"}

\* 'first' of a column over a group: the first value that is not null, and
\* the null `empty` when the group has none
AggFirst(g, c, nulls, empty) ==
    LET cells == SelectSeq([i \in DOMAIN g |-> g[i][c]], LAMBDA x : x \notin nulls)
    IN  IF cells = <<>> THEN empty ELSE cells[1]

Aggregate(g, first_null) ==
    [InvoiceNo |-> g[1]["InvoiceNo"],
     StockCode |-> g[1]["StockCode"],
     Quantity |-> AggSum(g, "Quantity"),
     TotalAmount |-> AggSum(g, "TotalAmount"),
     InvoiceDate |-> AggFirst(g, "InvoiceDate", {NaNDate, NoneDate},
                              IF first_null = "None" THEN NoneDate ELSE NaNDate),
     Country |-> AggFirst(g, "Country", {NULL, PyNone},
                          IF first_null = "None" THEN PyNone ELSE NULL),
     CustomerID |-> AggFirst(g, "CustomerID", {NULL, PyNone},
                             IF first_null = "None" THEN PyNone ELSE NULL),
     UnitPrice |-> AggFirst(g, "UnitPrice", {NaN}, NaN)]

\* groupby(['InvoiceNo', 'StockCode'], as_index=False).agg(...): one record per
\* key pair in ascending key order; a row whose key is NaN is in no group.
GroupRows(rows, key) ==
    SelectSeq(rows, LAMBDA r : r["InvoiceNo"] = key[1] /\ r["StockCode"] = key[2])

GroupByAgg(rows, first_null) ==
    LET keys == {<<rows[i]["InvoiceNo"], rows[i]["StockCode"]>> : i \in DOMAIN rows}
        present == SelectSeq(GroupKeys, LAMBDA key : key \in keys)
    IN  [i \in DOMAIN present |-> Aggregate(GroupRows(rows, present[i]), first_null)]

\* str(v) of a cell of a column of numbers or of text, as .astype(str) applies
\* it: the digits of an int, the digits and '.0' of a whole float, 'nan' of
\* a NaN, and text as it is
str(v) ==
    CASE v.k = "int" -> ToString(v.v)
      [] v.k = "float" -> ToString(v.v) \o ".0"
      [] v.k = "nan" -> "nan"
      [] v.k = "none" -> "None"
      [] OTHER -> v.v

fillna_guest_absent_only(d) ==
    IF "CustomerID" \in d.columns
    THEN [d EXCEPT !.rows =
            [i \in DOMAIN d.rows |-> [d.rows[i] EXCEPT !["CustomerID"] = str(@)]]]
    ELSE [columns |-> d.columns \cup {"CustomerID"},
          rows |-> [i \in DOMAIN d.rows |->
                      [c \in d.columns \cup {"CustomerID"} |->
                          IF c = "CustomerID" THEN "Guest" ELSE d.rows[i][c]]]]

\* CustomerID: .fillna('Guest').astype(str) when the column is there, a NaN or
\* a None becoming 'Guest' and every other cell its string form; else a
\* column of 'Guest'
fillna_guest(d) ==
    LET cols == d.columns \cup {"CustomerID"}
        guest(r) == [c \in cols |->
                       IF c = "CustomerID"
                       THEN IF c \in d.columns /\ r[c].k \notin {"nan", "none"}
                            THEN str(r[c]) ELSE "Guest"
                       ELSE r[c]]
    IN  [columns |-> cols, rows |-> [i \in DOMAIN d.rows |-> guest(d.rows[i])]]

dropna_none(rows, subset) == rows

\* dropna(subset=[...]): the rows that have a value in the column
dropna(rows, subset) == SelectSeq(rows, LAMBDA r : r[subset] \notin {NULL, PyNone})

\* .astype(str) of a text cell: a missing cell becomes the string 'nan'
astype_str(v) == IF v = NULL THEN "nan" ELSE v

\* df_clean.to_dict('records'): the aggregated records, floats still native
records(d, first_null) ==
    LET renamed == RenameColumns(d, [c \in d.columns |-> column_map(c)])
        dated == IF "InvoiceDate" \in renamed.columns
                 THEN [renamed EXCEPT !.rows =
                         [i \in DOMAIN renamed.rows |->
                            [renamed.rows[i] EXCEPT !["InvoiceDate"] = strftime(@)]]]
                 ELSE renamed
        filled == fillna_guest(dated)
        keyed == dropna(filled.rows, "InvoiceNo")
        typed == [i \in DOMAIN keyed |->
                    [keyed[i] EXCEPT !["InvoiceNo"] = astype_str(@)]]
    IN  GroupByAgg(typed, first_null)

prepare_dataframe_for_dynamo(d, first_null) ==
    LET recs == records(d, first_null)
    IN  [i \in DOMAIN recs |-> convert_float_to_decimal(recs[i])]

----------------------------------------------------------------------------
(* The table of dynamodb/dynamo_client.py: KeySchema InvoiceNo (HASH) alone,  *)
(* and Country, CustomerID and InvoiceDate declared strings, the keys of the  *)
(* two indexes.  A put replaces the item that has the same primary key, or    *)
(* adds the item.                                                             *)

PrimaryKey(item) == item["InvoiceNo"]

PutItem_append(table, item) == Append(table, item)

PutItem(table, item) ==
    IF \E i \in DOMAIN table : PrimaryKey(table[i]) = PrimaryKey(item)
    THEN [i \in DOMAIN table |->
            IF PrimaryKey(table[i]) = PrimaryKey(item) THEN item ELSE table[i]]
    ELSE Append(table, item)

IndexKeys == {"Country", "CustomerID", "InvoiceDate"}

\* a value of type 'S', as the table asks of an attribute that is an index key
IsString(attr, v) ==
    IF attr = "InvoiceDate" THEN v \notin {NaNDate, NoneDate, DecimalNaNDate}
    ELSE v \notin {NULL, PyNone, DecimalNaNText}

HasDuplicateKeys(batch) ==
    \E i, j \in DOMAIN batch : i # j /\ PrimaryKey(batch[i]) = PrimaryKey(batch[j])

\* A BatchWriteItem request that raises whatever the table holds: two of its
\* items have the same primary key, or an item brings a value that is not a
\* string (None, Decimal('NaN')) for an index key.
Invalid(batch) ==
    \/ HasDuplicateKeys(batch)
    \/ \E i \in DOMAIN batch : \E attr \in IndexKeys \cap DOMAIN batch[i] :
          ~IsString(attr, batch[i][attr])

\* the table after a BatchWriteItem of the items of batch
RECURSIVE BatchWriteItem(_, _)
BatchWriteItem(table, batch) ==
    IF batch = <<>> THEN table
    ELSE BatchWriteItem(PutItem(table, Head(batch)), Tail(batch))

----------------------------------------------------------------------------
(* The input of the pipeline *)

RawColumns ==
    {"InvoiceNo", "StockCode", "Quantity", "InvoiceDate", "UnitPrice",
     "CustomerID", "Country"}

\* pd.read_csv on the column col of customer ids, given as the file writes
\* them (whole numbers, blanks, text): a column of numbers is int64, float64
\* when a cell of it is blank, and where a cell is text the numbers are text.
read_csv(d, col) ==
    IF col \notin d.columns THEN d
    ELSE LET kinds == {d.rows[i][col].k : i \in DOMAIN d.rows}
             typed(v) ==
                 IF v.k # "int" THEN v
                 ELSE IF "str" \in kinds THEN [k |-> "str", v |-> ToString(v.v)]
                 ELSE IF "nan" \in kinds THEN PyFloat(v.v)
                 ELSE v
         IN  [d EXCEPT !.rows =
                 [i \in DOMAIN d.rows |-> [d.rows[i] EXCEPT ![col] = typed(@)]]]

BaseRow ==
    [InvoiceNo |-> "A", StockCode |-> "X", Quantity |-> PyInt(2),
     InvoiceDate |-> "12/1/2010 8:26", UnitPrice |-> PyFloat(500),
     CustomerID |-> PyInt(17850), Country |-> "FR"]

\* the lines of the file: BaseRow with other keys, with other numbers, or
\* with other attributes, one of them a blank customer id
RowDomain ==
    LET KeyRows ==
            {[BaseRow EXCEPT !["InvoiceNo"] = i, !["StockCode"] = s] :
                i \in {"A", "B", NULL}, s \in {"X", "Y", NULL}}
        NumRows ==
            {[BaseRow EXCEPT !["Quantity"] = q, !["UnitPrice"] = p] :
                q \in {PyInt(-1), PyInt(0), PyInt(2), PyInt(3)},
                p \in {PyFloat(0), PyFloat(500), PyFloat(700)}}
            \cup {[BaseRow EXCEPT !["Quantity"] = Text],
                  [BaseRow EXCEPT !["UnitPrice"] = Text]}
        AttrRows ==
            {[BaseRow EXCEPT !["Country"] = c, !["InvoiceDate"] = d] :
                c \in {"FR", "ES", NULL}, d \in {"12/1/2010 8:26", "12/2/2010 8:26"}}
            \cup {[BaseRow EXCEPT !["CustomerID"] = NaN],
                  [BaseRow EXCEPT !["InvoiceDate"] = "not a date"]}
    IN  KeyRows \cup NumRows \cup AttrRows

RawFrames ==
    {read_csv([columns |-> RawColumns, rows |-> s], "CustomerID") :
        s \in UNION {[1..n -> RowDomain] : n \in 0..MaxRows}}

NoLoad == [done |-> FALSE, load |-> 0, table |-> <<>>]

\* no invocation has been entered
QueryIdle ==
    /\ call = [fn |-> "none"]
    /\ qpc = "idle"
    /\ kwargs = [op |-> "none"]
    /\ acc = <<>>
    /\ start_key = ""
    /\ pages = <<>>
    /\ requests = <<>>
    /\ outcome = "none"
    /\ result = <<>>
    /\ other = [call |-> call, qpc |-> qpc, kwargs |-> kwargs, acc |-> acc,
                start_key |-> start_key, pages |-> pages, requests |-> requests,
                outcome |-> outcome, result |-> result]

Init ==
    /\ raw \in RawFrames
    /\ df = raw
    /\ pc = "raw"
    /\ items = <<>>
    /\ next_item = 1
    /\ loads = 0
    /\ store = <<>>
    /\ first_load = NoLoad
    /\ log = <<>>
    /\ QueryIdle

----------------------------------------------------------------------------
(* main.clean_data, stage by stage *)

CleanColumns ==
    /\ pc = "raw"
    /\ df' = clean_columns(df)
    /\ pc' = "columns"
    /\ UNCHANGED <<raw, items, next_item, loads, store, first_load, log, queryVars>>

CleanDates ==
    /\ pc = "columns"
    /\ df' = clean_dates(df, "invoicedate")
    /\ log' = log \o clean_dates_prints(df, "invoicedate")
    /\ pc' = "dates"
    /\ UNCHANGED <<raw, items, next_item, loads, store, first_load, queryVars>>

CleanNumeric ==
    /\ pc = "dates"
    /\ df' = clean_numeric(df, <<"quantity", "unitprice">>)
    /\ pc' = "numeric"
    /\ UNCHANGED <<raw, items, next_item, loads, store, first_load, log, queryVars>>

RemoveInvalidSales ==
    /\ pc = "numeric"
    /\ df' = remove_invalid_sales(df, "quantity", "unitprice")
    /\ pc' = "valid"
    /\ UNCHANGED <<raw, items, next_item, loads, store, first_load, log, queryVars>>

AddTotalAmount ==
    /\ pc = "valid"
    /\ df' = add_total_amount(df, "quantity", "unitprice")
    /\ pc' = "cleaned"
    /\ UNCHANGED <<raw, items, next_item, loads, store, first_load, log, queryVars>>

----------------------------------------------------------------------------
(* load_orders_to_dynamodb(df), called by main after clean_data; main may be  *)
(* run again on the same input.                                               *)

LoadStart ==
    /\ pc \in {"cleaned", "loaded", "load_failed"}
    /\ loads < MaxLoads
    /\ \E first_null \in FirstNulls :
          items' = prepare_dataframe_for_dynamo(df, first_null)
    /\ next_item' = 1
    /\ loads' = loads + 1
    /\ pc' = "loading"
    /\ UNCHANGED <<raw, df, store, first_load, log, queryVars>>

\* table.batch_writer(): the writer sends a request when it holds so many items
FlushAmount == 25

\* the writer's buffer: the items put since the last request
Buffer ==
    SubSeq(items, ((next_item - 1) \div FlushAmount) * FlushAmount + 1,
           next_item - 1)

\* batch.put_item(Item=item): the writer keeps the item, and sends its buffer
\* to the table when the item fills it
Put ==
    /\ pc = "loading"
    /\ next_item <= Len(items)
    /\ LET batch == Append(Buffer, items[next_item])
       IN  IF Len(batch) < FlushAmount
           THEN store' = store
           ELSE /\ ~Invalid(batch)
                /\ store' = BatchWriteItem(store, batch)
    /\ next_item' = next_item + 1
    /\ UNCHANGED <<raw, df, pc, items, loads, first_load, log, queryVars>>

\* the writer is about to send a request: the next put_item fills its buffer,
\* or the with block ends and the buffer holds items
RequestDue ==
    IF next_item <= Len(items) THEN Len(Buffer) + 1 >= FlushAmount
    ELSE Buffer # <<>>

PutFails_swallowed ==
    /\ pc = "loading"
    /\ RequestDue
    /\ IF next_item <= Len(items)
       THEN /\ next_item' = next_item + 1
            /\ UNCHANGED <<pc, first_load, log>>
       ELSE /\ pc' = "loaded"
            /\ first_load' = IF first_load.done THEN first_load
                             ELSE [done |-> TRUE, load |-> loads, table |-> store]
            /\ log' = Append(log, "Successfully loaded")
            /\ next_item' = next_item
    /\ UNCHANGED <<raw, df, items, loads, store, queryVars>>

\* A request of the writer raises, because the table refuses it or because it
\* is invalid: inside the put_item that fills the buffer, or at the end of the
\* with block.  Nothing of the request is written, and the exception leaves
\* load_orders_to_dynamodb.
PutFails ==
    /\ pc = "loading"
    /\ RequestDue
    /\ pc' = "load_failed"
    /\ UNCHANGED <<raw, df, items, next_item, loads, store, first_load, log, queryVars>>

\* The with block ends: the writer sends what its buffer holds, and the
\* function prints its report.
LoadDone ==
    /\ pc = "loading"
    /\ next_item > Len(items)
    /\ ~Invalid(Buffer)
    /\ store' = BatchWriteItem(store, Buffer)
    /\ pc' = "loaded"
    /\ first_load' = IF first_load.done THEN first_load
                     ELSE [done |-> TRUE, load |-> loads, table |-> store']
    /\ log' = Append(log, "Successfully loaded")
    /\ UNCHANGED <<raw, df, items, next_item, loads, queryVars>>

Next ==
    \/ CleanColumns
    \/ CleanDates
    \/ CleanNumeric
    \/ RemoveInvalidSales
    \/ AddTotalAmount
    \/ LoadStart
    \/ Put
    \/ PutFails
    \/ LoadDone

Spec == Init /\ [][Next]_vars

----------------------------------------------------------------------------
(* A load of more items than the batch writer holds: main has cleaned a file  *)
(* of MaxBulk invoices or fewer, and calls load_orders_to_dynamodb.  The      *)
(* writer sends its first request inside the put_item of the 25th item.       *)

\* Cleaned frames of 24 lines and more, one invoice per line, but for the
\* line `twin` (if any), which is a second article of the invoice of the line
\* before it.
BulkFrames ==
    LET row(i, twin) ==
            [invoiceno |-> BulkKeys[IF i = twin THEN i - 1 ELSE i],
             stockcode |-> IF i = twin THEN "Y" ELSE "X",
             customerid |-> PyInt(17850), country |-> "FR",
             invoicedate |-> Timestamp(1, 0), quantity |-> PyInt(2),
             unitprice |-> PyFloat(500), total_amount |-> PyFloat(1000)]
    IN  {[columns |-> {"invoiceno", "stockcode", "quantity", "invoicedate",
                       "unitprice", "customerid", "country", "total_amount"},
          rows |-> [i \in 1..p[1] |-> row(i, p[2])]] :
            p \in {q \in ((FlushAmount - 1)..MaxBulk) \X {0, 2, FlushAmount + 1} :
                      q[2] <= q[1]}}

InitBulk ==
    /\ raw \in BulkFrames
    /\ df = raw
    /\ pc = "cleaned"
    /\ items = <<>>
    /\ next_item = 1
    /\ loads = 0
    /\ store = <<>>
    /\ first_load = NoLoad
    /\ log = <<>>
    /\ QueryIdle

NextBulk ==
    \/ LoadStart
    \/ Put
    \/ PutFails
    \/ LoadDone

SpecBulk == InitBulk /\ [][NextBulk]_vars

----------------------------------------------------------------------------
(* boto3.dynamodb.conditions: Key(...) / Attr(...) expressions as trees, and  *)
(* the table's answer to one scan or query request.                           *)

NoCondition == [op |-> "none"]
eq(attr, val) == [attr |-> attr, op |-> "eq", val |-> val]
gte(attr, val) == [attr |-> attr, op |-> "gte", val |-> val]
lte(attr, val) == [attr |-> attr, op |-> "lte", val |-> val]
between(attr, lo, hi) == [attr |-> attr, hi |-> hi, lo |-> lo, op |-> "between"]
And(l, r) == [l |-> l, op |-> "and", r |-> r]
Or(l, r) == [l |-> l, op |-> "or", r |-> r]

\* s <= t for two strings, as tuples of character codes
RECURSIVE StrLE(_, _)
StrLE(s, t) ==
    IF s = <<>> THEN TRUE
    ELSE IF t = <<>> THEN FALSE
    ELSE IF Head(s) # Head(t) THEN Head(s) < Head(t)
    ELSE StrLE(Tail(s), Tail(t))

\* a <= b for two attribute values of the same type: numbers or strings
ValueLE(attr, a, b) == IF attr \in NumericAttrs THEN a.v <= b.v ELSE StrLE(a, b)

RECURSIVE Holds(_, _)
Holds(cond, item) ==
    CASE cond.op = "none" -> TRUE
      [] cond.op = "eq" -> item[cond.attr] = cond.val
      [] cond.op = "gte" -> ValueLE(cond.attr, cond.val, item[cond.attr])
      [] cond.op = "lte" -> ValueLE(cond.attr, item[cond.attr], cond.val)
      [] cond.op = "between" ->
            /\ ValueLE(cond.attr, cond.lo, item[cond.attr])
            /\ ValueLE(cond.attr, item[cond.attr], cond.hi)
      [] cond.op = "and" -> Holds(cond.l, item) /\ Holds(cond.r, item)
      [] cond.op = "or" -> Holds(cond.l, item) \/ Holds(cond.r, item)

\* the items of seq in ascending InvoiceDate, the sort key of both indexes
RECURSIVE SortByDate(_)
SortByDate(seq) ==
    IF seq = <<>> THEN <<>>
    ELSE LET rest == SortByDate(Tail(seq))
             x == Head(seq)
             before == SelectSeq(rest,
                          LAMBDA y : ~StrLE(x["InvoiceDate"], y["InvoiceDate"]))
             after == SelectSeq(rest,
                          LAMBDA y : StrLE(x["InvoiceDate"], y["InvoiceDate"]))
         IN  before \o <<x>> \o after

\* the items a request walks over, in the order the table serves them: a query
\* the items of the index that meet the key condition, a scan the whole table
Candidates(table, kw) ==
    IF kw.op = "query"
    THEN SortByDate(SelectSeq(table, LAMBDA it : Holds(kw.KeyConditionExpression, it)))
    ELSE table

Project(item, attrs) ==
    IF attrs = {} THEN item ELSE [a \in attrs \cap DOMAIN item |-> item[a]]

IndexOfKey(seq, key) ==
    IF key = "" THEN 0 ELSE CHOOSE i \in DOMAIN seq : PrimaryKey(seq[i]) = key

\* One response: the table evaluates the next n items after ExclusiveStartKey,
\* returns those that pass the filter, and LastEvaluatedKey, the key of the
\* last item evaluated, while items are left; when the page ends at the last
\* item the table may still return a key (more), and the next page is empty.
Respond(table, kw, n, more) ==
    LET cands == Candidates(table, kw)
        from == IndexOfKey(cands, kw.ExclusiveStartKey)
        upto == IF from + n < Len(cands) THEN from + n ELSE Len(cands)
        seen == SubSeq(cands, from + 1, upto)
        hits == SelectSeq(seen, LAMBDA it : Holds(kw.FilterExpression, it))
    IN  [Items |-> [i \in DOMAIN hits |-> Project(hits[i], kw.ProjectionExpression)],
         LastEvaluatedKey |->
            IF upto < Len(cands) \/ (more /\ upto > from)
            THEN PrimaryKey(cands[upto]) ELSE ""]

----------------------------------------------------------------------------
(* analityics/base/query_base.py *)

scan_kwargs(projection, filter_expression) ==
    [op |-> "scan", IndexName |-> "", KeyConditionExpression |-> NoCondition,
     FilterExpression |-> filter_expression,
     ProjectionExpression |-> projection, ExclusiveStartKey |-> ""]

query_kwargs(index_name, key_condition, projection) ==
    [op |-> "query", IndexName |-> index_name,
     KeyConditionExpression |-> key_condition, FilterExpression |-> NoCondition,
     ProjectionExpression |-> projection, ExclusiveStartKey |-> ""]

with_start_key_never(kw, key) == kw

\* if start_key: kwargs['ExclusiveStartKey'] = start_key
with_start_key(kw, key) ==
    IF key # "" THEN [kw EXCEPT !.ExclusiveStartKey = key] ELSE kw

extend_replace(list, more_items) == more_items

extend_prepend(list, more_items) == more_items \o list

\* items.extend(response.get('Items', []))
extend(list, more_items) == list \o more_items

\* except Exception as e: logger.error(...); return []
on_error(list) == <<>>

----------------------------------------------------------------------------
(* analityics/queries/*.py: the descriptors handed to the access engine *)

None == [k |-> "None", v |-> 0]

\* sales_query.py
get_sales_by_country_args(country, start_date, end_date) ==
    query_kwargs("CountryIndex",
        IF start_date # <<>> /\ end_date # <<>>
        THEN And(eq("Country", country), between("InvoiceDate", start_date, end_date))
        ELSE eq("Country", country),
        {})

get_orders_by_date_range_args(start_date, end_date) ==
    scan_kwargs({}, between("InvoiceDate", start_date, end_date))

\* customer_query.py
get_orders_by_client_args(customer_id) ==
    query_kwargs("CustomerIndex", eq("CustomerID", customer_id), {})

\* geo_query.py
get_sales_for_geo_visualization_args(start_date, end_date) ==
    scan_kwargs({"Country", "InvoiceDate", "TotalAmount", "InvoiceNo"},
        IF start_date # <<>> /\ end_date # <<>>
        THEN between("InvoiceDate", start_date, end_date)
        ELSE IF start_date # <<>> THEN gte("InvoiceDate", start_date)
        ELSE IF end_date # <<>> THEN lte("InvoiceDate", end_date)
        ELSE NoCondition)

\* histogram_query.py
RECURSIVE any_of(_, _)
any_of(attr, values) ==
    IF Len(values) = 1 THEN eq(attr, values[1])
    ELSE Or(any_of(attr, SubSeq(values, 1, Len(values) - 1)),
            eq(attr, values[Len(values)]))

RECURSIVE all_of(_)
all_of(conditions) ==
    IF conditions = <<>> THEN NoCondition
    ELSE IF Len(conditions) = 1 THEN conditions[1]
    ELSE And(all_of(SubSeq(conditions, 1, Len(conditions) - 1)),
             conditions[Len(conditions)])

histogram_conditions_truthy(countries, min_amount, max_amount) ==
    (IF min_amount # None /\ min_amount.v # 0
     THEN <<gte("TotalAmount", Decimal(min_amount.v))>> ELSE <<>>)
    \o (IF max_amount # None /\ max_amount.v # 0
        THEN <<lte("TotalAmount", Decimal(max_amount.v))>> ELSE <<>>)
    \o (IF countries # <<>> THEN <<any_of("Country", countries)>> ELSE <<>>)

histogram_conditions(countries, min_amount, max_amount) ==
    (IF min_amount # None
     THEN <<gte("TotalAmount", Decimal(min_amount.v))>> ELSE <<>>)
    \o (IF max_amount # None
        THEN <<lte("TotalAmount", Decimal(max_amount.v))>> ELSE <<>>)
    \o (IF countries # <<>> THEN <<any_of("Country", countries)>> ELSE <<>>)

get_sales_for_histogram_analysis_args(countries, min_amount, max_amount) ==
    scan_kwargs({"Country", "TotalAmount", "CustomerID"},
        all_of(histogram_conditions(countries, min_amount, max_amount)))

(* analityics/query.py, the module main imports its queries from *)

query_get_orders_by_client_args(customer_id) ==
    query_kwargs("CustomerIndex", eq("CustomerID", customer_id), {})

query_get_sales_by_country_args(country, start_date, end_date) ==
    query_kwargs("CountryIndex",
        IF start_date # <<>> /\ end_date # <<>>
        THEN And(eq("Country", country), between("InvoiceDate", start_date, end_date))
        ELSE eq("Country", country),
        {})

query_get_orders_by_date_range_args(start_date, end_date) ==
    scan_kwargs({}, between("InvoiceDate", start_date, end_date))

----------------------------------------------------------------------------
(* The tables and the arguments of the analytics specification *)

StoredKeys == <<"A", "B", "C">>
Countries == {"FR", "ES"}
Customers == {"17850", "Guest"}
StoredDates == {<<1, 0>>, <<1, 1>>, <<2, 0>>}
DateArgs == {<<>>, <<1>>, <<2>>, <<2, 0>>}
CountryLists == {<<>>, <<"FR">>, <<"ES", "FR">>}
MinAmounts == {None, PyFloat(0), PyFloat(10000)}
MaxAmounts == {None, PyFloat(10000)}

AmountOn(date) ==
    CASE date = <<1, 0>> -> 5000
      [] date = <<1, 1>> -> 10000
      [] OTHER -> 15000

CustomerOf(key) == IF key = "C" THEN "Guest" ELSE "17850"

\* an item as load_orders_to_dynamodb writes it
StoredItem(key, country, date) ==
    [InvoiceNo |-> key, StockCode |-> "X", Quantity |-> PyInt(1),
     TotalAmount |-> Decimal(AmountOn(date)), InvoiceDate |-> date,
     Country |-> country, CustomerID |-> CustomerOf(key),
     UnitPrice |-> Decimal(AmountOn(date))]

\* every table holding at most one item per key of StoredKeys
StoredTables ==
    LET CountriesOf(key) ==
            CASE key = "A" -> {"FR", "ES"}
              [] key = "B" -> {"FR"}
              [] OTHER -> {"ES"}
        variants == {<<c, d>> : c \in Countries, d \in StoredDates} \cup {<<>>}
        choices == {f \in [Range(StoredKeys) -> variants] :
                      \A key \in Range(StoredKeys) :
                          f[key] # <<>> => f[key][1] \in CountriesOf(key)}
        table(f) ==
            LET keys == SelectSeq(StoredKeys, LAMBDA key : f[key] # <<>>)
            IN  [i \in DOMAIN keys |->
                    StoredItem(keys[i], f[keys[i]][1], f[keys[i]][2])]
    IN  {table(f) : f \in choices}

InitQuery ==
    /\ raw = [columns |-> RawColumns, rows |-> <<>>]
    /\ df = raw
    /\ pc = "loaded"
    /\ items = <<>>
    /\ next_item = 1
    /\ loads = MaxLoads
    /\ store \in StoredTables
    /\ first_load = NoLoad
    /\ log = <<>>
    /\ QueryIdle

----------------------------------------------------------------------------
(* One analytics call at a time *)

StartCall_keep_cursor(c, kw) ==
    /\ call' = c
    /\ kwargs' = kw
    /\ acc' = <<>>
    /\ start_key' = start_key
    /\ pages' = <<>>
    /\ requests' = <<>>
    /\ outcome' = "none"
    /\ result' = <<>>
    /\ qpc' = "fetching"
    /\ UNCHANGED <<pipeVars, store, other>>

StartCall(c, kw) ==
    /\ call' = c
    /\ kwargs' = kw
    /\ acc' = <<>>
    /\ start_key' = ""
    /\ pages' = <<>>
    /\ requests' = <<>>
    /\ outcome' = "none"
    /\ result' = <<>>
    /\ qpc' = "fetching"
    /\ UNCHANGED <<pipeVars, store, other>>

GetSalesByCountry ==
    \E c \in Countries, sd \in DateArgs, ed \in DateArgs :
        /\ qpc = "idle"
        /\ StartCall([fn |-> "get_sales_by_country", paginated |-> TRUE,
                      country |-> c, start_date |-> sd,
                      end_date |-> ed],
                     get_sales_by_country_args(c, sd, ed))

GetOrdersByDateRange ==
    \E sd \in DateArgs, ed \in DateArgs :
        /\ qpc = "idle"
        /\ StartCall([fn |-> "get_orders_by_date_range", paginated |-> TRUE,
                      start_date |-> sd, end_date |-> ed],
                     get_orders_by_date_range_args(sd, ed))

GetOrdersByClient ==
    \E cid \in Customers :
        /\ qpc = "idle"
        /\ StartCall([fn |-> "get_orders_by_client", paginated |-> TRUE,
                      customer_id |-> cid],
                     get_orders_by_client_args(cid))

GetSalesForGeoVisualization ==
    \E sd \in DateArgs, ed \in DateArgs :
        /\ qpc = "idle"
        /\ StartCall([fn |-> "get_sales_for_geo_visualization", paginated |-> TRUE,
                      start_date |-> sd, end_date |-> ed],
                     get_sales_for_geo_visualization_args(sd, ed))

GetSalesForHistogramAnalysis ==
    \E cs \in CountryLists, lo \in MinAmounts, hi \in MaxAmounts :
        /\ qpc = "idle"
        /\ StartCall([fn |-> "get_sales_for_histogram_analysis", paginated |-> TRUE,
                      countries |-> cs, min_amount |-> lo,
                      max_amount |-> hi],
                     get_sales_for_histogram_analysis_args(cs, lo, hi))

QueryGetOrdersByClient ==
    \E cid \in Customers :
        /\ qpc = "idle"
        /\ StartCall([fn |-> "query.get_orders_by_client", paginated |-> FALSE,
                      customer_id |-> cid],
                     query_get_orders_by_client_args(cid))

QueryGetSalesByCountry ==
    \E c \in Countries, sd \in DateArgs, ed \in DateArgs :
        /\ qpc = "idle"
        /\ StartCall([fn |-> "query.get_sales_by_country", paginated |-> FALSE,
                      country |-> c, start_date |-> sd,
                      end_date |-> ed],
                     query_get_sales_by_country_args(c, sd, ed))

QueryGetOrdersByDateRange ==
    \E sd \in DateArgs \ {<<>>}, ed \in DateArgs \ {<<>>} :
        /\ qpc = "idle"
        /\ StartCall([fn |-> "query.get_orders_by_date_range", paginated |-> TRUE,
                      start_date |-> sd, end_date |-> ed],
                     query_get_orders_by_date_range_args(sd, ed))

\* the descriptor a call hands to the access engine, from its arguments
ArgsOf(c) ==
    CASE c.fn = "get_sales_by_country" ->
            get_sales_by_country_args(c.country, c.start_date, c.end_date)
      [] c.fn = "get_orders_by_date_range" ->
            get_orders_by_date_range_args(c.start_date, c.end_date)
      [] c.fn = "get_orders_by_client" ->
            get_orders_by_client_args(c.customer_id)
      [] c.fn = "get_sales_for_geo_visualization" ->
            get_sales_for_geo_visualization_args(c.start_date, c.end_date)
      [] c.fn = "get_sales_for_histogram_analysis" ->
            get_sales_for_histogram_analysis_args(c.countries, c.min_amount,
                                                  c.max_amount)
      [] c.fn = "query.get_orders_by_client" ->
            query_get_orders_by_client_args(c.customer_id)
      [] c.fn = "query.get_sales_by_country" ->
            query_get_sales_by_country_args(c.country, c.start_date, c.end_date)
      [] c.fn = "query.get_orders_by_date_range" ->
            query_get_orders_by_date_range_args(c.start_date, c.end_date)

\* The caller makes the call it made before once more, after the earlier one
\* returned its list or was cut short by an error: a new invocation, its
\* kwargs, list and start_key new.
CallAgain ==
    /\ qpc = "returned"
    /\ StartCall(call, ArgsOf(call))

\* a request and its response as the table saw them: the cursor the request
\* carried and the cursor the response returned ("" for none)
Exchange(kw, response) ==
    [ExclusiveStartKey |-> kw.ExclusiveStartKey,
     LastEvaluatedKey |-> response.LastEvaluatedKey, ok |-> TRUE]

\* a request the table answered by raising
Refused(kw) ==
    [ExclusiveStartKey |-> kw.ExclusiveStartKey, LastEvaluatedKey |-> "",
     ok |-> FALSE]

FetchPage_consuming ==
    /\ qpc = "fetching"
    /\ call.paginated
    /\ \E n \in 1..MaxPage, more \in BOOLEAN :
        LET kw == with_start_key(kwargs, start_key)
            response == Respond(store, kw, n, more)
            list == extend(acc, response.Items)
        IN  /\ kwargs' = kw
            /\ requests' = Append(requests, Exchange(kw, response))
            /\ pages' = Append(pages, response.Items)
            /\ acc' = list
            /\ start_key' = response.LastEvaluatedKey
            /\ store' = SelectSeq(store,
                            LAMBDA it : Project(it, kw.ProjectionExpression)
                                            \notin Range(response.Items))
            /\ IF response.LastEvaluatedKey = ""
               THEN /\ qpc' = "returned"
                    /\ outcome' = "done"
                    /\ result' = list
               ELSE UNCHANGED <<qpc, outcome, result>>
    /\ UNCHANGED <<pipeVars, call, other>>

FetchPage_stop_on_empty ==
    /\ qpc = "fetching"
    /\ call.paginated
    /\ \E n \in 1..MaxPage, more \in BOOLEAN :
        LET kw == with_start_key(kwargs, start_key)
            response == Respond(store, kw, n, more)
            list == extend(acc, response.Items)
        IN  /\ kwargs' = kw
            /\ requests' = Append(requests, Exchange(kw, response))
            /\ pages' = Append(pages, response.Items)
            /\ acc' = list
            /\ start_key' = response.LastEvaluatedKey
            /\ IF response.LastEvaluatedKey = "" \/ response.Items = <<>>
               THEN /\ qpc' = "returned"
                    /\ outcome' = "done"
                    /\ result' = list
               ELSE UNCHANGED <<qpc, outcome, result>>
    /\ UNCHANGED <<pipeVars, store, call, other>>

\* One pass of `while True` in paginated_scan / paginated_query (and of
\* `while not done` in query.get_orders_by_date_range): request, extend,
\* take the cursor, and return the list when there is none.
FetchPage ==
    /\ qpc = "fetching"
    /\ call.paginated
    /\ \E n \in 1..MaxPage, more \in BOOLEAN :
        LET kw == with_start_key(kwargs, start_key)
            response == Respond(store, kw, n, more)
            list == extend(acc, response.Items)
        IN  /\ kwargs' = kw
            /\ requests' = Append(requests, Exchange(kw, response))
            /\ pages' = Append(pages, response.Items)
            /\ acc' = list
            /\ start_key' = response.LastEvaluatedKey
            /\ IF response.LastEvaluatedKey = ""
               THEN /\ qpc' = "returned"
                    /\ outcome' = "done"
                    /\ result' = list
               ELSE UNCHANGED <<qpc, outcome, result>>
    /\ UNCHANGED <<pipeVars, store, call, other>>

\* query.get_orders_by_client / query.get_sales_by_country: one table.query,
\* then return response.get('Items', [])
SingleRequest ==
    /\ qpc = "fetching"
    /\ ~call.paginated
    /\ \E n \in 1..MaxPage, more \in BOOLEAN :
        LET response == Respond(store, kwargs, n, more)
        IN  /\ requests' = Append(requests, Exchange(kwargs, response))
            /\ pages' = Append(pages, response.Items)
            /\ result' = response.Items
    /\ qpc' = "returned"
    /\ outcome' = "done"
    /\ UNCHANGED <<pipeVars, store, call, kwargs, acc, start_key, other>>

\* the table raises on a request: every function catches, logs, returns [].
\* The loop has written its cursor into the kwargs before the request.
StoreError ==
    /\ qpc = "fetching"
    /\ qpc' = "returned"
    /\ outcome' = "error"
    /\ result' = on_error(acc)
    /\ kwargs' = with_start_key(kwargs, start_key)
    /\ requests' = Append(requests, Refused(with_start_key(kwargs, start_key)))
    /\ UNCHANGED <<pipeVars, store, call, acc, start_key, pages, other>>

NextQuery ==
    \/ GetSalesByCountry
    \/ GetOrdersByDateRange
    \/ GetOrdersByClient
    \/ GetSalesForGeoVisualization
    \/ GetSalesForHistogramAnalysis
    \/ QueryGetOrdersByClient
    \/ QueryGetSalesByCountry
    \/ QueryGetOrdersByDateRange
    \/ CallAgain
    \/ FetchPage
    \/ SingleRequest
    \/ StoreError

SpecQuery == InitQuery /\ [][NextQuery]_vars

\* The access engine alone, under a scan with a filter and under a query on
\* an index.  A call that has been entered runs on: its loop makes its next
\* request, and the table answers it or raises.
NextPaging ==
    \/ GetOrdersByDateRange
    \/ GetOrdersByClient
    \/ CallAgain
    \/ FetchPage
    \/ StoreError

SpecPaging == InitQuery /\ [][NextPaging]_vars /\ WF_vars(FetchPage)

----------------------------------------------------------------------------
(* Two invocations of the access engine at a time, as two threads of a caller *)
(* make them: each invocation has its own kwargs, items and start_key, and    *)
(* the table is the one both read.  One invocation runs, the other waits      *)
(* between two of its requests.                                               *)

\* the locals of the invocation that runs
Frame ==
    [call |-> call, qpc |-> qpc, kwargs |-> kwargs, acc |-> acc,
     start_key |-> start_key, pages |-> pages, requests |-> requests,
     outcome |-> outcome, result |-> result]

\* The invocation that runs is held between two requests, its cursor in hand,
\* and the caller is free to enter a second invocation.
Suspend ==
    /\ qpc = "fetching"
    /\ other.qpc = "idle"
    /\ other' = Frame
    /\ qpc' = "idle"
    /\ UNCHANGED <<pipeVars, store, call, kwargs, acc, start_key, pages,
                   requests, outcome, result>>

\* the invocation that waits goes on, and the one that ran waits or is over
Switch ==
    /\ other.qpc = "fetching"
    /\ qpc \in {"fetching", "returned"}
    /\ other' = Frame
    /\ call' = other.call
    /\ qpc' = other.qpc
    /\ kwargs' = other.kwargs
    /\ acc' = other.acc
    /\ start_key' = other.start_key
    /\ pages' = other.pages
    /\ requests' = other.requests
    /\ outcome' = other.outcome
    /\ result' = other.result
    /\ UNCHANGED <<pipeVars, store>>

\* The table gives each of the two invocations several pages: it has an item
\* for every key, all of one day.
InitInterleaved ==
    /\ raw = [columns |-> RawColumns, rows |-> <<>>]
    /\ df = raw
    /\ pc = "loaded"
    /\ items = <<>>
    /\ next_item = 1
    /\ loads = MaxLoads
    /\ store \in {t \in StoredTables :
                      /\ Len(t) = Len(StoredKeys)
                      /\ \A i \in DOMAIN t : t[i]["InvoiceDate"] = <<1, 0>>}
    /\ first_load = NoLoad
    /\ log = <<>>
    /\ QueryIdle

NextInterleaved ==
    \/ GetOrdersByDateRange
    \/ GetOrdersByClient
    \/ CallAgain
    \/ FetchPage
    \/ StoreError
    \/ Suspend
    \/ Switch

SpecInterleaved == InitInterleaved /\ [][NextInterleaved]_vars

----------------------------------------------------------------------------
(* The functions of data_cleaning.py and prepare_dataframe_for_dynamo, each   *)
(* called once on a frame of its own: the frame may lack a column, and may    *)
(* bring a total_amount column.  Column names are those clean_columns leaves. *)

DropColumn(d, c) ==
    [columns |-> d.columns \ {c},
     rows |-> [i \in DOMAIN d.rows |-> [k \in d.columns \ {c} |-> d.rows[i][k]]]]

FramesOf(columns, rowset) ==
    {[columns |-> columns, rows |-> rws] :
        rws \in UNION {[1..n -> rowset] : n \in 0..MaxRows}}

CsvColumns ==
    {"invoiceno", "stockcode", "quantity", "invoicedate", "unitprice",
     "customerid", "country"}

\* rows as read from the file: dates are text, a number may be text
CsvRows ==
    {[invoiceno |-> "A", stockcode |-> "X", customerid |-> PyInt(17850),
      country |-> "FR", invoicedate |-> d, quantity |-> q, unitprice |-> p] :
        d \in {"12/1/2010 8:26", "12/2/2010 8:26", "not a date"},
        q \in {PyInt(2), Text}, p \in {PyFloat(500), Text}}

CsvFrames ==
    LET full == FramesOf(CsvColumns, CsvRows)
    IN  full \cup {DropColumn(d, c) :
                      d \in full, c \in {"invoicedate", "quantity", "unitprice"}}

NumericColumns == CsvColumns \cup {"total_amount"}

NumericRow ==
    [invoiceno |-> "A", stockcode |-> "X", customerid |-> PyInt(17850),
     country |-> "FR", invoicedate |-> Timestamp(1, 0), quantity |-> PyInt(2),
     unitprice |-> PyFloat(500), total_amount |-> PyFloat(9999)]

\* rows as clean_numeric leaves them, with a total_amount the input brought
NumericRows ==
    {[NumericRow EXCEPT !["quantity"] = q, !["unitprice"] = p] :
        q \in {PyInt(-1), PyInt(0), PyInt(2), PyInt(3)},
        p \in {PyFloat(0), PyFloat(500)}}
    \cup {[NumericRow EXCEPT !["customerid"] = c] :
            c \in {NaN, [k |-> "str", v |-> "C12583"]}}
    \cup {[NumericRow EXCEPT !["stockcode"] = "Y"],
          [NumericRow EXCEPT !["invoicedate"] = Timestamp(2, 0)]}

NumericFrames ==
    LET full == {read_csv(d, "customerid") : d \in FramesOf(NumericColumns, NumericRows)}
    IN  full \cup {DropColumn(d, c) :
                      d \in full,
                      c \in {"total_amount", "quantity", "unitprice", "customerid"}}

\* Prices as the file writes them, in tenths and in hundredths, and 19.99:
\* every literal with the float that reading the file makes of it
LiteralFloats ==
    {<<s, float_of(s)>> :
        s \in {[n |-> BigOf(n), d |-> 1] : n \in 1..MaxFloat}
            \cup {[n |-> BigOf(n), d |-> 2] : n \in {h \in 1..MaxFloat : h % 10 # 0}}
            \cup {[n |-> BigOf(1999), d |-> 2]}}

\* The floats of the records: those of up to FracBits fractional bits, those
\* of the literals, most of which are no such fractions (0.1, 0.07, 19.99),
\* and 0.30000000000000004, the float that 3 * 0.1 is.
Floats ==
    {BinFloat(mm) : mm \in 0..MaxFloat}
        \cup {p[2] : p \in LiteralFloats}
        \cup {float_of([n |-> <<4, 0, 0, 0, 3>>, d |-> 17])}

RecordRow ==
    [InvoiceNo |-> "A", StockCode |-> "X", Quantity |-> PyInt(2),
     TotalAmount |-> PyFloat(1000), InvoiceDate |-> <<1, 0>>,
     Country |-> "FR", CustomerID |-> "17850", UnitPrice |-> PyFloat(500)]

\* aggregated records: prices of any float, and records that lack a value,
\* a NaN or a None in its place
RecordRows ==
    {[RecordRow EXCEPT !["UnitPrice"] = x, !["TotalAmount"] = TwiceFloat(x)] :
        x \in Floats}
    \cup {[RecordRow EXCEPT !["Country"] = c, !["InvoiceDate"] = d] :
            c \in {"FR", NULL, PyNone}, d \in {<<1, 0>>, NaNDate, NoneDate}}
    \cup {[RecordRow EXCEPT !["UnitPrice"] = NaN]}

\* the groupby gives every record a key pair of its own
RecordFrames ==
    {[columns |-> {"InvoiceNo", "StockCode", "Quantity", "TotalAmount", "InvoiceDate",
                   "Country", "CustomerID", "UnitPrice"},
      rows |-> [i \in DOMAIN rws |-> [rws[i] EXCEPT !["InvoiceNo"] = StoredKeys[i]]]] :
        rws \in UNION {[1..n -> RecordRows] : n \in 0..MaxRows}}

InitStage ==
    /\ \/ pc = "csv" /\ raw \in CsvFrames /\ store = <<>>
       \/ /\ pc = "numeric" /\ raw \in NumericFrames
          \* the table before the call: empty, or as an earlier load left it
          /\ store \in {<<>>, <<StoredItem("B", "FR", <<1, 0>>)>>}
       \/ pc = "records" /\ raw \in RecordFrames /\ store = <<>>
    /\ df = raw
    /\ items = <<>>
    /\ next_item = 1
    /\ loads = 0
    /\ first_load = NoLoad
    /\ log = <<>>
    /\ QueryIdle

StageCleanDates ==
    /\ pc = "csv"
    /\ df' = clean_dates(raw, "invoicedate")
    /\ log' = log \o clean_dates_prints(raw, "invoicedate")
    /\ pc' = "clean_dates"
    /\ UNCHANGED <<raw, items, next_item, loads, store, first_load, queryVars>>

\* df[col] raises KeyError for a column the frame does not have
StageCleanNumeric ==
    /\ pc = "csv"
    /\ IF {"quantity", "unitprice"} \subseteq raw.columns
       THEN /\ df' = clean_numeric(raw, <<"quantity", "unitprice">>)
            /\ pc' = "clean_numeric"
       ELSE /\ df' = df
            /\ pc' = "raised"
    /\ UNCHANGED <<raw, items, next_item, loads, store, first_load, log, queryVars>>

StageRemoveInvalidSales ==
    /\ pc = "numeric"
    /\ df' = remove_invalid_sales(raw, "quantity", "unitprice")
    /\ pc' = "remove_invalid_sales"
    /\ UNCHANGED <<raw, items, next_item, loads, store, first_load, log, queryVars>>

StageAddTotalAmount ==
    /\ pc = "numeric"
    /\ df' = add_total_amount(raw, "quantity", "unitprice")
    /\ pc' = "add_total_amount"
    /\ UNCHANGED <<raw, items, next_item, loads, store, first_load, log, queryVars>>

\* the groupby and its agg raise KeyError for a column the frame does not have
StagePrepare ==
    /\ pc = "numeric"
    /\ IF NumericColumns \ {"customerid"} \subseteq raw.columns
       THEN /\ \E first_null \in FirstNulls :
                  items' = prepare_dataframe_for_dynamo(raw, first_null)
            /\ pc' = "prepare_dataframe_for_dynamo"
       ELSE /\ items' = items
            /\ pc' = "raised"
    /\ UNCHANGED <<raw, df, next_item, loads, store, first_load, log, queryVars>>

StageLoad_streaming ==
    /\ pc = "numeric"
    /\ loads' = loads + 1
    /\ IF NumericColumns \ {"customerid"} \subseteq raw.columns
       THEN /\ \E first_null \in FirstNulls :
                  items' = prepare_dataframe_for_dynamo(raw, first_null)
            /\ next_item' = 1
            /\ pc' = "loading"
            /\ store' = store
       ELSE /\ UNCHANGED <<items, next_item>>
            /\ pc' = "raised"
            /\ store' = IF raw.rows = <<>> THEN store
                        ELSE PutItem(store,
                                [InvoiceNo |-> raw.rows[1]["invoiceno"],
                                 StockCode |-> raw.rows[1]["stockcode"]])
    /\ UNCHANGED <<raw, df, first_load, log, queryVars>>

\* load_orders_to_dynamodb(raw): items = prepare_dataframe_for_dynamo(df) is
\* evaluated before the batch writer is opened; a KeyError of the groupby
\* leaves the function there.
StageLoad ==
    /\ pc = "numeric"
    /\ loads' = loads + 1
    /\ IF NumericColumns \ {"customerid"} \subseteq raw.columns
       THEN /\ \E first_null \in FirstNulls :
                  items' = prepare_dataframe_for_dynamo(raw, first_null)
            /\ next_item' = 1
            /\ pc' = "loading"
       ELSE /\ UNCHANGED <<items, next_item>>
            /\ pc' = "raised"
    /\ UNCHANGED <<raw, df, store, first_load, log, queryVars>>

\* [convert_float_to_decimal(record) for record in records]
StageConvert ==
    /\ pc = "records"
    /\ items' = [i \in DOMAIN raw.rows |-> convert_float_to_decimal(raw.rows[i])]
    /\ pc' = "convert_float_to_decimal"
    /\ UNCHANGED <<raw, df, next_item, loads, store, first_load, log, queryVars>>

NextStage ==
    \/ StageConvert
    \/ StageCleanDates
    \/ StageCleanNumeric
    \/ StageRemoveInvalidSales
    \/ StageAddTotalAmount
    \/ StagePrepare
    \/ StageLoad
    \/ Put
    \/ PutFails
    \/ LoadDone

SpecStage == InitStage /\ [][NextStage]_vars

----------------------------------------------------------------------------
(* Properties *)

Count(seq, x) == Cardinality({i \in DOMAIN seq : seq[i] = x})

SameBag(s, t) ==
    /\ Len(s) = Len(t)
    /\ \A x \in Range(s) \cup Range(t) : Count(s, x) = Count(t, x)

Returned == qpc = "returned"

\* the items of the table that match the key condition and the filter of the
\* call, as the call's projection shows them
Matching ==
    LET hits == SelectSeq(store,
                   LAMBDA it : /\ Holds(kwargs.KeyConditionExpression, it)
                               /\ Holds(kwargs.FilterExpression, it))
    IN  [i \in DOMAIN hits |-> Project(hits[i], kwargs.ProjectionExpression)]

\* C1: a call of paginated_scan or paginated_query that the table answers
\* without error returns exactly the matching items of the table, each once,
\* whatever the sizes of the pages.
C1_PaginationComplete ==
    (Returned /\ outcome = "done" /\ call.paginated) => SameBag(result, Matching)

C1_Witness ==
    /\ Returned /\ outcome = "done" /\ call.paginated
    /\ kwargs.op = "scan"
    /\ Len(store) = 3
    /\ Len(result) = 2
    /\ Len(pages) >= 3
    /\ \A i \in DOMAIN pages : Len(pages[i]) <= 1

\* C2: every record of the aggregated set of a load can be stored beside the
\* others: when the load has completed each of them is in the table, and when
\* it has failed it is not because two of its records, of one invoice, have
\* the same primary key.
C2_EveryPairStored ==
    /\ pc = "loaded" =>
          \A i \in DOMAIN items : \E j \in DOMAIN store : store[j] = items[i]
    /\ pc = "load_failed" => ~HasDuplicateKeys(items)

\* the rows of the cleaned frame that have the key pair <<invoice, stock>>
RowsOfPair(d, pair) ==
    SelectSeq(d.rows, LAMBDA r : r["invoiceno"] = pair[1] /\ r["stockcode"] = pair[2])

PairsOf(d) ==
    {<<d.rows[i]["invoiceno"], d.rows[i]["stockcode"]>> : i \in DOMAIN d.rows}
        \ {p \in {NULL, "A", "B"} \X {NULL, "X", "Y"} : NULL \in {p[1], p[2]}}

Prepared == pc \in {"loading", "loaded", "load_failed"}

\* prepare_dataframe_for_dynamo has returned its list and nothing is put yet
JustPrepared == pc = "loading" /\ next_item = 1

\* C3: the prepared items hold exactly one record for every key pair
\* (InvoiceNo, StockCode) of the frame given to prepare_dataframe_for_dynamo,
\* and its Quantity and TotalAmount are the sums over the rows of that pair.
C3_OneRecordPerPairWithSums ==
    Prepared =>
        /\ \A p \in PairsOf(df) :
            LET rows == RowsOfPair(df, p)
                recs == {i \in DOMAIN items :
                            items[i]["InvoiceNo"] = p[1] /\ items[i]["StockCode"] = p[2]}
            IN  /\ Cardinality(recs) = 1
                /\ \A i \in recs :
                    /\ items[i]["Quantity"].v =
                          SumSeq([k \in DOMAIN rows |-> rows[k]["quantity"].v])
                    /\ items[i]["TotalAmount"].v =
                          SumSeq([k \in DOMAIN rows |-> rows[k]["total_amount"].v])
        /\ Len(items) = Cardinality(PairsOf(df))

C3_Witness ==
    /\ Prepared
    /\ Len(df.rows) = 2
    /\ df.rows[1]["invoiceno"] = "A" /\ df.rows[1]["stockcode"] = "X"
    /\ df.rows[2]["invoiceno"] = "A" /\ df.rows[2]["stockcode"] = "X"
    /\ df.rows[1]["quantity"].v = 2 /\ df.rows[2]["quantity"].v = 3
    /\ Len(items) = 1
    /\ items[1]["Quantity"].v = 5
    /\ items[1]["TotalAmount"].v = 2500

\* a raw row that clean_data keeps: its date and numbers parse and its
\* quantity and unit price are positive
ValidRaw(r) ==
    /\ to_datetime(r["InvoiceDate"]) # NaT
    /\ r["Quantity"].k \in {"int", "float"} /\ r["Quantity"].v > 0
    /\ r["UnitPrice"].k \in {"int", "float"} /\ r["UnitPrice"].v > 0

\* C4: every record in the table is made of valid raw rows alone: its
\* Quantity and TotalAmount are the sums over the raw rows of its key pair
\* whose quantity and unit price are positive, and there is such a row.
C4_NoInvalidRowReachesStore ==
    \A j \in DOMAIN store :
        LET rows == SelectSeq(raw.rows,
                       LAMBDA r : /\ r["InvoiceNo"] = store[j]["InvoiceNo"]
                                  /\ r["StockCode"] = store[j]["StockCode"]
                                  /\ ValidRaw(r))
        IN  /\ rows # <<>>
            /\ store[j]["Quantity"].v =
                  SumSeq([k \in DOMAIN rows |-> rows[k]["Quantity"].v])
            /\ store[j]["TotalAmount"].v =
                  SumSeq([k \in DOMAIN rows |->
                            rows[k]["Quantity"].v * rows[k]["UnitPrice"].v])

C4_Witness ==
    /\ pc = "loaded"
    /\ Len(raw.rows) = 2
    /\ raw.rows[1]["Quantity"].v = 0 /\ raw.rows[1]["UnitPrice"].v = 700
    /\ ValidRaw(raw.rows[2])
    /\ Len(store) = 1

\* C5: a call that ends in a store error returns the items of the pages it
\* had received.
C5_ErrorReturnsAccumulated ==
    (Returned /\ outcome = "error") => result = Concat(pages)

\* C6: when the same frame has been loaded a second time, the table is what
\* the first load left.
C6_LoadIdempotent ==
    (pc = "loaded" /\ first_load.done) => store = first_load.table

C6_Witness ==
    /\ pc = "loaded"
    /\ loads = 2
    /\ first_load.done /\ first_load.load = 1
    /\ Len(store) = 2
    /\ Len(items) = 2

\* C7: every lookup on an index returns all the items of the index that meet
\* its key condition, not only those of the first page.
C7_IndexLookupsFollowCursor ==
    (Returned /\ outcome = "done" /\ kwargs.op = "query") =>
        \A i \in DOMAIN store :
            Holds(kwargs.KeyConditionExpression, store[i]) =>
                \E j \in DOMAIN result : result[j] = store[i]

\* C8: get_sales_by_country given both bounds returns exactly the items of the
\* country whose InvoiceDate is in [start_date, end_date], ends included.
C8_SalesByCountryInClosedInterval ==
    (/\ Returned /\ outcome = "done"
     /\ call.fn \in {"get_sales_by_country", "query.get_sales_by_country"}
     /\ call.start_date # <<>> /\ call.end_date # <<>>) =>
        SameBag(result,
            SelectSeq(store,
                LAMBDA it : /\ it["Country"] = call.country
                            /\ StrLE(call.start_date, it["InvoiceDate"])
                            /\ StrLE(it["InvoiceDate"], call.end_date)))

\* The same statement for get_sales_by_country of queries/sales_query.py
\* alone, which pages through paginated_query.
SalesByCountryPaginatedInClosedInterval ==
    (/\ Returned /\ outcome = "done"
     /\ call.fn = "get_sales_by_country"
     /\ call.start_date # <<>> /\ call.end_date # <<>>) =>
        SameBag(result,
            SelectSeq(store,
                LAMBDA it : /\ it["Country"] = call.country
                            /\ StrLE(call.start_date, it["InvoiceDate"])
                            /\ StrLE(it["InvoiceDate"], call.end_date)))

\* the leaves of a condition tree
RECURSIVE Leaves(_)
Leaves(cond) ==
    IF cond.op \in {"and", "or"} THEN Leaves(cond.l) \cup Leaves(cond.r)
    ELSE IF cond.op = "none" THEN {}
    ELSE {cond}

\* what get_sales_for_histogram_analysis is asked for
HistogramWanted(it) ==
    /\ call.countries # <<>> => it["Country"] \in Range(call.countries)
    /\ call.min_amount # None => it["TotalAmount"].v >= call.min_amount.v
    /\ call.max_amount # None => it["TotalAmount"].v <= call.max_amount.v

\* C9: get_sales_for_histogram_analysis returns only items that meet every
\* constraint supplied, and all of them when the scan completes; a missing
\* constraint restricts nothing; min_amount = 0 is sent to the table as a
\* constraint.
C9_HistogramFilterConjunction ==
    (call.fn = "get_sales_for_histogram_analysis") =>
        /\ \A i \in DOMAIN result : HistogramWanted(result[i])
        /\ (Returned /\ outcome = "done") =>
              Len(result) =
                  Cardinality({i \in DOMAIN store : HistogramWanted(store[i])})
        /\ call.min_amount # None =>
              gte("TotalAmount", Decimal(call.min_amount.v))
                  \in Leaves(kwargs.FilterExpression)
        /\ call.max_amount # None =>
              lte("TotalAmount", Decimal(call.max_amount.v))
                  \in Leaves(kwargs.FilterExpression)

C9_Witness ==
    /\ call.fn = "get_sales_for_histogram_analysis"
    /\ Returned /\ outcome = "done"
    /\ call.countries = <<"ES", "FR">>
    /\ call.min_amount = PyFloat(0)
    /\ call.max_amount = PyFloat(10000)
    /\ Len(store) = 3
    /\ Len(result) = 2

\* C10: the list paginated_query returns is the pages one after the other,
\* each in its own order, and so ascending by InvoiceDate as the index is.
C10_QueryResultInIndexOrder ==
    (Returned /\ outcome = "done" /\ call.paginated /\ kwargs.op = "query") =>
        /\ result = Concat(pages)
        /\ \A i, j \in DOMAIN result :
              i < j => StrLE(result[i]["InvoiceDate"], result[j]["InvoiceDate"])

C10_Witness ==
    /\ Returned /\ outcome = "done" /\ call.paginated /\ kwargs.op = "query"
    /\ Len(pages) >= 2
    /\ Len(result) = 2
    /\ result[1]["InvoiceNo"] = "B" /\ result[2]["InvoiceNo"] = "A"
    /\ result[1]["InvoiceDate"] # result[2]["InvoiceDate"]

\* the five attributes a result item is to carry
FiveKeys == {"Country", "InvoiceDate", "TotalAmount", "InvoiceNo", "CustomerID"}

\* C11: every item of the list an analytics function returns has the five
\* attributes Country, InvoiceDate, TotalAmount, InvoiceNo and CustomerID.
C11_ResultItemsCarryFiveKeys ==
    Returned => \A i \in DOMAIN result : FiveKeys \subseteq DOMAIN result[i]

\* C12: a request of the load that raises ends the call: nothing of it is
\* written, the items after it are not put and nothing is printed; after
\* that, until load_orders_to_dynamodb is called again, the table is not
\* written and "Successfully loaded" is not printed.  A put_item that sends a
\* request and returns has written the request, and the report is printed
\* only by the step that wrote what the writer held, when the table has a
\* record for every item of the load.
C12_WriteErrorAbortsLoad ==
    [][/\ (pc = "loading" /\ pc' = "load_failed") =>
            /\ store' = store
            /\ next_item' = next_item
            /\ log' = log
       /\ (pc = "loading" /\ RequestDue /\ next_item' = next_item + 1) =>
            store' = BatchWriteItem(store, Append(Buffer, items[next_item]))
       /\ (pc = "loading" /\ log' # log) =>
            /\ pc' = "loaded"
            /\ \A i \in DOMAIN Buffer : \E j \in DOMAIN store' : store'[j] = Buffer[i]
            /\ \A i \in DOMAIN items :
                  \E j \in DOMAIN store' : PrimaryKey(store'[j]) = PrimaryKey(items[i])
       /\ pc = "load_failed" =>
            /\ store' = store
            /\ log' = log
            /\ \/ pc' = "load_failed" /\ next_item' = next_item
               \/ pc' = "loading" /\ loads' = loads + 1]_vars

\* the table refused the request sent inside the put_item of the 25th item of
\* a load of 26: nothing is written, and the 26th item is never put
C12_Witness ==
    /\ pc = "load_failed"
    /\ loads = 1
    /\ Len(items) = FlushAmount + 1
    /\ ~Invalid(SubSeq(items, 1, FlushAmount))
    /\ next_item = FlushAmount
    /\ store = <<>>
    /\ log = <<>>

\* the request at the end of the with block raised: the 25 items of the
\* first request stay written, the 26th is not, and nothing is printed
C12_WitnessAtExit ==
    /\ pc = "load_failed"
    /\ loads = 1
    /\ Len(items) = FlushAmount + 1
    /\ next_item = FlushAmount + 2
    /\ store = SubSeq(items, 1, FlushAmount)
    /\ log = <<>>

\* a missing value in an item: None, NaN or Decimal('NaN') for a string
IsNull(attr, v) == ~IsString(attr, v)

\* the items load_orders_to_dynamodb has handed to put_item so far
PutSoFar == IF Prepared THEN SubSeq(items, 1, next_item - 1) ELSE <<>>

\* C13: every item handed to put_item has a value for Country, CustomerID and
\* InvoiceDate, the key attributes of the two indexes.
C13_IndexKeysNonNull ==
    \A i \in DOMAIN PutSoFar :
        /\ ~IsNull("Country", PutSoFar[i]["Country"])
        /\ ~IsNull("CustomerID", PutSoFar[i]["CustomerID"])
        /\ ~IsNull("InvoiceDate", PutSoFar[i]["InvoiceDate"])

\* The part of C13 that the loader does meet: CustomerID and InvoiceDate.
CustomerAndDateNonNull ==
    \A i \in DOMAIN PutSoFar :
        /\ ~IsNull("CustomerID", PutSoFar[i]["CustomerID"])
        /\ ~IsNull("InvoiceDate", PutSoFar[i]["InvoiceDate"])

\* isinstance(v, float) for the value v of attribute attr in a record
IsFloat(attr, v) ==
    IF attr \in NumericAttrs THEN v.k \in {"float", "double", "nan"}
    ELSE IF attr = "InvoiceDate" THEN v = NaNDate
    ELSE v = NULL

\* C15: the items of a load are the aggregated records with every float
\* replaced by the Decimal of its string form: same attributes, every other
\* value as it was, no float left; the table holds nothing but such items.
C15_NoFloatReachesStore ==
    /\ JustPrepared =>
          \E first_null \in FirstNulls :
          LET recs == records(df, first_null)
          IN  /\ Len(items) = Len(recs)
              /\ \A i \in DOMAIN items :
                    LET rec == recs[i]
                    IN  /\ DOMAIN items[i] = DOMAIN rec
                        /\ \A attr \in DOMAIN rec :
                              /\ ~IsFloat(attr, items[i][attr])
                              /\ ~IsFloat(attr, rec[attr]) =>
                                    items[i][attr] = rec[attr]
                              /\ (attr \in NumericAttrs /\ rec[attr].k = "float") =>
                                    items[i][attr] = Decimal(rec[attr].v)
    /\ \A j \in DOMAIN store : \A attr \in DOMAIN store[j] :
          ~IsFloat(attr, store[j][attr])

C15_Witness ==
    /\ pc = "loaded"
    /\ Len(store) = 1
    /\ records(df, "None")[1]["UnitPrice"] = PyFloat(700)
    /\ records(df, "None")[1]["TotalAmount"] = PyFloat(2100)
    /\ store[1]["UnitPrice"] = Decimal(700)
    /\ store[1]["TotalAmount"] = Decimal(2100)
    /\ store[1]["Quantity"] = PyInt(3)

\* the rows of the input frame that went into item it, in frame order
RowsOfItem(it) ==
    SelectSeq(raw.rows, LAMBDA r : r["invoiceno"] = it["InvoiceNo"]
                                   /\ r["stockcode"] = it["StockCode"])

\* C14: the CustomerID of every record prepare_dataframe_for_dynamo makes is
\* a string: the string form of the customer id of the first row of its key
\* pair when that row has one, which is never 'Guest', and 'Guest' when it
\* has none or the frame has no customer-id column.
C14_GuestSentinel ==
    pc = "prepare_dataframe_for_dynamo" =>
        \A i \in DOMAIN items :
            LET first == RowsOfItem(items[i])[1]
                present == "customerid" \in raw.columns /\ first["customerid"] # NaN
            IN  /\ ~IsNull("CustomerID", items[i]["CustomerID"])
                /\ present => /\ items[i]["CustomerID"] = str(first["customerid"])
                               /\ items[i]["CustomerID"] # "Guest"
                /\ ~present => items[i]["CustomerID"] = "Guest"

\* a row with no customer id among rows that have one: the column is of
\* floats, and the id 17850 is stored as '17850.0'
C14_Witness ==
    /\ pc = "prepare_dataframe_for_dynamo"
    /\ "customerid" \in raw.columns
    /\ Len(raw.rows) = 2
    /\ raw.rows[1]["customerid"] = NaN /\ raw.rows[1]["stockcode"] = "X"
    /\ raw.rows[2]["customerid"] = PyFloat(17850) /\ raw.rows[2]["stockcode"] = "Y"
    /\ Len(items) = 2
    /\ items[1]["CustomerID"] = "Guest" /\ items[2]["CustomerID"] = "17850.0"

\* no row lacks its customer id: the column is of ints, stored as '17850'
C14_WitnessWhole ==
    /\ pc = "prepare_dataframe_for_dynamo"
    /\ Len(raw.rows) = 2
    /\ raw.rows[1]["customerid"] = PyInt(17850) /\ raw.rows[1]["stockcode"] = "X"
    /\ raw.rows[2]["customerid"] = PyInt(17850) /\ raw.rows[2]["stockcode"] = "Y"
    /\ items[1]["CustomerID"] = "17850" /\ items[2]["CustomerID"] = "17850"

\* a customer id that is text beside one that is a number
C14_WitnessText ==
    /\ pc = "prepare_dataframe_for_dynamo"
    /\ Len(raw.rows) = 2
    /\ raw.rows[1]["customerid"] = [k |-> "str", v |-> "17850"]
    /\ raw.rows[1]["stockcode"] = "X"
    /\ raw.rows[2]["customerid"] = [k |-> "str", v |-> "C12583"]
    /\ raw.rows[2]["stockcode"] = "Y"
    /\ items[1]["CustomerID"] = "17850" /\ items[2]["CustomerID"] = "C12583"

\* the frame has no customer-id column at all
C14_WitnessNoColumn ==
    /\ pc = "prepare_dataframe_for_dynamo"
    /\ "customerid" \notin raw.columns
    /\ Len(items) = 2
    /\ items[1]["CustomerID"] = "Guest" /\ items[2]["CustomerID"] = "Guest"

\* a stored number read back as a native one: float(x) of a Decimal
ReadBack(x) ==
    IF x.k = "Decimal" /\ "e" \in DOMAIN x
    THEN float_of([n |-> x.n, d |-> x.e])
    ELSE x

\* C16: every number of a record, converted by convert_float_to_decimal and
\* read back as a native number, is the number the record had; and the
\* Decimal of a float has no drift: the float of a price literal is stored as
\* the literal, digit for digit, and no Decimal has a digit that reading it
\* back needs not (no numeral of fewer digits reads back as the float).
C16_DecimalRoundTrip ==
    pc = "convert_float_to_decimal" =>
        \A i \in DOMAIN items : \A attr \in NumericAttrs :
            /\ raw.rows[i][attr].k = "int" => items[i][attr] = raw.rows[i][attr]
            /\ raw.rows[i][attr].k = "float" =>
                  items[i][attr] = Decimal(raw.rows[i][attr].v)
            /\ raw.rows[i][attr].k = "double" =>
                  /\ items[i][attr].k = "Decimal"
                  /\ ReadBack(items[i][attr]) = raw.rows[i][attr]
                  /\ \A p \in LiteralFloats :
                        raw.rows[i][attr] = p[2] =>
                            items[i][attr] = DecimalOfStr(p[1])
                  /\ \A d \in 1..(items[i][attr].e - 1) :
                        float_of(Rounded([n |-> items[i][attr].n,
                                          d |-> items[i][attr].e], d))
                            # raw.rows[i][attr]

\* 19.99, the double 5626684784446013 / 2^48, is stored as 19.99 and its
\* double as 39.98; 1/8 is stored as 0.125 and 2/8 as 0.25
C16_Witness ==
    /\ pc = "convert_float_to_decimal"
    /\ Len(items) = 2
    /\ raw.rows[1]["UnitPrice"] = Double(<<6013, 8444, 6847, 5626>>, 0 - 48)
    /\ items[1]["UnitPrice"] = [k |-> "Decimal", n |-> BigOf(1999), e |-> 2]
    /\ items[1]["TotalAmount"] = [k |-> "Decimal", n |-> BigOf(3998), e |-> 2]
    /\ items[1]["Quantity"] = PyInt(2)
    /\ raw.rows[2]["UnitPrice"] = Double(<<1>>, 0 - 3)
    /\ items[2]["UnitPrice"] = [k |-> "Decimal", n |-> BigOf(125), e |-> 3]
    /\ items[2]["TotalAmount"] = [k |-> "Decimal", n |-> BigOf(25), e |-> 2]

\* 0.5 is stored as 0.5 and its double, 1.0, as 1.0, with the digit str()
\* writes after the point
C16_WitnessWhole ==
    /\ pc = "convert_float_to_decimal"
    /\ Len(items) = 1
    /\ raw.rows[1]["UnitPrice"] = Double(<<1>>, 0 - 1)
    /\ raw.rows[1]["TotalAmount"] = Double(<<1>>, 0)
    /\ items[1]["UnitPrice"] = [k |-> "Decimal", n |-> BigOf(5), e |-> 1]
    /\ items[1]["TotalAmount"] = [k |-> "Decimal", n |-> BigOf(10), e |-> 1]

\* 3 * 0.1, the double 1351079888211149 / 2^52, is stored with the seventeen
\* digits it needs, 0.30000000000000004, and its double with sixteen
C16_WitnessLong ==
    /\ pc = "convert_float_to_decimal"
    /\ Len(items) = 1
    /\ raw.rows[1]["UnitPrice"] = Double(<<1149, 8821, 798, 1351>>, 0 - 52)
    /\ items[1]["UnitPrice"] = [k |-> "Decimal", n |-> <<4, 0, 0, 0, 3>>, e |-> 17]
    /\ items[1]["TotalAmount"] = [k |-> "Decimal", n |-> <<1, 0, 0, 6000>>, e |-> 16]

HasBoth(d) == {"quantity", "unitprice"} \subseteq d.columns

\* C17: after add_total_amount on a frame that has quantity and unit price,
\* the total_amount of every row is its quantity times its unit price, also
\* where the input had a total_amount of its own; nothing else changes.
C17_TotalAmountRecomputed ==
    (pc = "add_total_amount" /\ HasBoth(raw)) =>
        /\ Len(df.rows) = Len(raw.rows)
        /\ df.columns = raw.columns \cup {"total_amount"}
        /\ \A i \in DOMAIN df.rows :
              /\ df.rows[i]["total_amount"].v =
                    raw.rows[i]["quantity"].v * raw.rows[i]["unitprice"].v
              /\ \A c \in raw.columns \ {"total_amount"} :
                    df.rows[i][c] = raw.rows[i][c]

C17_Witness ==
    /\ pc = "add_total_amount"
    /\ HasBoth(raw)
    /\ "total_amount" \in raw.columns
    /\ Len(raw.rows) = 1
    /\ raw.rows[1]["quantity"] = PyInt(3)
    /\ raw.rows[1]["unitprice"] = PyFloat(500)
    /\ raw.rows[1]["total_amount"] = PyFloat(9999)
    /\ df.rows[1]["total_amount"] = PyFloat(1500)

Positive(r) == r["quantity"].v > 0 /\ r["unitprice"].v > 0

\* C18: remove_invalid_sales on a frame that has quantity and unit price
\* returns the rows in which both are above zero, as they were and in their
\* order; on a frame that lacks one of the columns it returns the frame.
C18_RemoveInvalidSales ==
    pc = "remove_invalid_sales" =>
        IF HasBoth(raw)
        THEN /\ df.columns = raw.columns
             /\ df.rows = SelectSeq(raw.rows, Positive)
        ELSE df = raw

C18_Witness ==
    /\ pc = "remove_invalid_sales"
    /\ HasBoth(raw)
    /\ Len(raw.rows) = 2
    /\ raw.rows[1]["quantity"] = PyInt(2) /\ raw.rows[1]["unitprice"] = PyFloat(0)
    /\ Positive(raw.rows[2])
    /\ df.rows = <<raw.rows[2]>>

C18_WitnessAbsent ==
    /\ pc = "remove_invalid_sales"
    /\ "quantity" \notin raw.columns
    /\ Len(raw.rows) = 2
    /\ raw.rows[1]["unitprice"] = PyFloat(0)
    /\ df = raw

\* C19: clean_dates for a column the frame does not have returns the frame as
\* it was and prints the warning.
C19_CleanDatesMissingColumn ==
    (pc = "clean_dates" /\ "invoicedate" \notin raw.columns) =>
        /\ df = raw
        /\ log = <<"Warning: Column not found">>

C19_Witness ==
    /\ pc = "clean_dates"
    /\ "invoicedate" \notin raw.columns
    /\ Len(raw.rows) = 2
    /\ df = raw
    /\ Len(log) = 1

DateParses(r) == to_datetime(r["invoicedate"]) # NaT

NumbersParse(r) ==
    r["quantity"].k \in {"int", "float"} /\ r["unitprice"].k \in {"int", "float"}

\* C20: clean_dates returns the rows whose date parses, clean_numeric the rows
\* whose quantity and unit price are numbers, in the order of the input; the
\* parsed cell has the value of the input cell and no other cell changes.
C20_UnparseableRowsDropped ==
    /\ (pc = "clean_dates" /\ "invoicedate" \in raw.columns) =>
          LET kept == SelectSeq(raw.rows, DateParses)
          IN  /\ Len(df.rows) = Len(kept)
              /\ \A i \in DOMAIN kept :
                    /\ df.rows[i]["invoicedate"] = to_datetime(kept[i]["invoicedate"])
                    /\ \A c \in raw.columns \ {"invoicedate"} :
                          df.rows[i][c] = kept[i][c]
    /\ pc = "clean_numeric" =>
          LET kept == SelectSeq(raw.rows, NumbersParse)
          IN  /\ Len(df.rows) = Len(kept)
              /\ \A i \in DOMAIN kept :
                    /\ \A c \in {"quantity", "unitprice"} :
                          /\ df.rows[i][c].k \in {"int", "float"}
                          /\ df.rows[i][c].v = kept[i][c].v
                    /\ \A c \in raw.columns \ {"quantity", "unitprice"} :
                          df.rows[i][c] = kept[i][c]

C20_Witness ==
    /\ pc = "clean_numeric"
    /\ "invoicedate" \in raw.columns
    /\ Len(raw.rows) = 2
    /\ raw.rows[1]["quantity"] = Text /\ raw.rows[1]["unitprice"] = PyFloat(500)
    /\ NumbersParse(raw.rows[2])
    /\ Len(df.rows) = 1
    /\ df.rows[1]["invoicedate"] = raw.rows[2]["invoicedate"]

C20_WitnessDates ==
    /\ pc = "clean_dates"
    /\ "invoicedate" \in raw.columns
    /\ Len(raw.rows) = 2
    /\ raw.rows[1]["invoicedate"] = "not a date"
    /\ raw.rows[2]["invoicedate"] = "12/2/2010 8:26"
    /\ Len(df.rows) = 1
    /\ df.rows[1]["invoicedate"] = Timestamp(2, 0)

\* the frame without the rows that have no invoice number
WithInvoice(d) == [d EXCEPT !.rows = SelectSeq(d.rows, LAMBDA r : r["invoiceno"] # NULL)]

\* C21: a row without invoice number makes no record and adds to no sum: the
\* list prepare_dataframe_for_dynamo returns is that of the frame without such
\* rows, no item is keyed by a missing invoice number, and the Quantity of an
\* item is the sum over the rows of its key pair.
C21_KeylessRowsDropped ==
    /\ JustPrepared =>
          \E first_null \in FirstNulls :
              items = prepare_dataframe_for_dynamo(WithInvoice(df), first_null)
    /\ Prepared =>
          /\ \A i \in DOMAIN items : items[i]["InvoiceNo"] \in {"A", "B"}
          /\ \A i \in DOMAIN items :
                LET rows == RowsOfPair(df, <<items[i]["InvoiceNo"],
                                             items[i]["StockCode"]>>)
                IN  items[i]["Quantity"].v =
                        SumSeq([k \in DOMAIN rows |-> rows[k]["quantity"].v])

C21_Witness ==
    /\ Prepared
    /\ Len(df.rows) = 2
    /\ df.rows[1]["invoiceno"] = NULL /\ df.rows[1]["stockcode"] = "X"
    /\ df.rows[2]["invoiceno"] = "A" /\ df.rows[2]["stockcode"] = "X"
    /\ Len(items) = 1
    /\ items[1]["InvoiceNo"] = "A"
    /\ items[1]["Quantity"] = df.rows[2]["quantity"]

\* the rows of the cleaned frame that went into item it, in frame order
GroupOf(it) == RowsOfPair(df, <<it["InvoiceNo"], it["StockCode"]>>)

\* C22: InvoiceDate, Country, CustomerID and UnitPrice of every prepared item
\* are those of the first row of its key pair, also where that row has no
\* value for the attribute.
C22_FirstRowWins ==
    Prepared =>
        \A i \in DOMAIN items :
            LET first == GroupOf(items[i])[1]
            IN  /\ items[i]["InvoiceDate"] = strftime(first["invoicedate"])
                /\ IsNull("Country", items[i]["Country"]) = (first["country"] = NULL)
                /\ first["country"] # NULL => items[i]["Country"] = first["country"]
                /\ items[i]["CustomerID"] =
                      IF first["customerid"] = NaN THEN "Guest"
                      ELSE str(first["customerid"])
                /\ items[i]["UnitPrice"].v = first["unitprice"].v

\* What the aggregation does: each attribute is that of the first row of the
\* key pair that has a value for it.
FirstValueWins ==
    Prepared =>
        \A i \in DOMAIN items :
            LET group == GroupOf(items[i])
                named == SelectSeq(group, LAMBDA r : r["country"] # NULL)
            IN  /\ items[i]["InvoiceDate"] = strftime(group[1]["invoicedate"])
                /\ items[i]["UnitPrice"].v = group[1]["unitprice"].v
                /\ items[i]["CustomerID"] =
                      IF group[1]["customerid"] = NaN THEN "Guest"
                      ELSE str(group[1]["customerid"])
                /\ IF named = <<>> THEN IsNull("Country", items[i]["Country"])
                   ELSE items[i]["Country"] = named[1]["country"]

\* the cursors of a sequence of requests follow one another
CursorProtocol(reqs) ==
    /\ reqs # <<>> => reqs[1].ExclusiveStartKey = ""
    /\ \A i \in 2..Len(reqs) :
          reqs[i].ExclusiveStartKey = reqs[i - 1].LastEvaluatedKey
    /\ \A i \in 1..(Len(reqs) - 1) : reqs[i].ok /\ reqs[i].LastEvaluatedKey # ""

\* the requests of the invocation whose locals are f follow the protocol, and
\* the invocation goes on exactly while its last response had a cursor
FrameProtocol(f) ==
    (f.qpc # "idle" /\ f.call.paginated) =>
        /\ CursorProtocol(f.requests)
        /\ (f.qpc = "fetching" /\ f.requests # <<>>) =>
              f.start_key = f.requests[Len(f.requests)].LastEvaluatedKey
        /\ (f.qpc = "returned" /\ f.outcome = "done") =>
              /\ f.requests # <<>>
              /\ f.requests[Len(f.requests)].ok
              /\ f.requests[Len(f.requests)].LastEvaluatedKey = ""

\* C23: in a call of paginated_scan or paginated_query the first request has
\* no cursor, whatever an earlier call left and whatever cursor a second call
\* that is under way holds; every later request has the cursor of the
\* response before it, of the same call; and no request follows a response
\* without cursor.  It holds of the call that runs and of the call that waits.
C23_CursorProtocol ==
    /\ FrameProtocol(Frame)
    /\ other.qpc # "idle" => FrameProtocol(other)

\* Two calls under way.  The first had the cursor "A" in hand when the second
\* was entered; the second began without cursor and holds the cursor "B"; the
\* first went on with "A", not with "B", and holds "C".
C23_Witness ==
    /\ qpc = "fetching" /\ call.paginated
    /\ other.qpc = "fetching"
    /\ Len(other.requests) = 1
    /\ other.requests[1] =
          [ExclusiveStartKey |-> "", LastEvaluatedKey |-> "B", ok |-> TRUE]
    /\ Len(requests) = 2
    /\ requests[1] = [ExclusiveStartKey |-> "", LastEvaluatedKey |-> "A", ok |-> TRUE]
    /\ requests[2] = [ExclusiveStartKey |-> "A", LastEvaluatedKey |-> "C", ok |-> TRUE]

\* no cursor is sent twice, and there are no more requests than items to walk
\* over and one
EachPageOnce(reqs) ==
    /\ \A i, j \in DOMAIN reqs :
          i # j => reqs[i].ExclusiveStartKey # reqs[j].ExclusiveStartKey
    /\ Len(reqs) <= Len(Candidates(store, kwargs)) + 1

\* C24: every call of paginated_scan or paginated_query returns, by a
\* response without cursor (done) or by a store error; it asks for no page
\* twice.
C24_CallsTerminate ==
    /\ []((qpc # "idle" /\ call.paginated) => EachPageOnce(requests))
    /\ [](Returned => outcome \in {"done", "error"})
    /\ (qpc = "fetching") ~> Returned

C24_Witness ==
    /\ Returned /\ outcome = "done" /\ call.paginated
    /\ Len(store) = 3
    /\ Len(requests) = 4
    /\ Len(result) = 3
    /\ requests[4].ExclusiveStartKey = "C"

C24_WitnessAborted ==
    /\ Returned /\ outcome = "error" /\ call.paginated
    /\ Len(requests) = 3
    /\ ~requests[3].ok
    /\ requests[3].ExclusiveStartKey = "B"

\* C25: the table is written only by a load whose items are the aggregation
\* of the whole frame, made before the first put and not changed after, and
\* what is written are items of that list; a load whose aggregation raises
\* writes nothing.
C25_AggregateBeforeWrite ==
    [][/\ store' # store =>
            /\ pc = "loading"
            /\ \E first_null \in FirstNulls :
                  items = prepare_dataframe_for_dynamo(raw, first_null)
            /\ items' = items
            /\ \A j \in DOMAIN store' :
                  \/ \E i \in DOMAIN store : store[i] = store'[j]
                  \/ \E i \in DOMAIN items : items[i] = store'[j]
       /\ pc' = "raised" => store' = store
       /\ (pc = "numeric" /\ pc' = "loading") =>
            /\ store' = store
            /\ \E first_null \in FirstNulls :
                  items' = prepare_dataframe_for_dynamo(raw, first_null)]_vars

\* two rows of one key pair are one record when the table is written
C25_Witness ==
    /\ pc = "loaded"
    /\ Len(raw.rows) = 2
    /\ raw.rows[1]["quantity"] = PyInt(2) /\ raw.rows[2]["quantity"] = PyInt(3)
    /\ Len(items) = 1
    /\ items[1]["Quantity"] = PyInt(5)
    /\ next_item = 2
    /\ Len(store) = 2
    /\ store[2] = items[1]

\* the aggregation raised and the table is as the earlier load left it
C25_WitnessRaised ==
    /\ pc = "raised"
    /\ loads = 1
    /\ Len(raw.rows) = 2
    /\ store = <<StoredItem("B", "FR", <<1, 0>>)>>

\* C26: no step of an analytics call changes the table, whether the call is
\* entered, receives a page, returns its list or is cut short by an error;
\* what a call sends to the table is a scan or a query.
C26_RetrievalReadsOnly ==
    [][/\ store' = store
       /\ qpc' # "idle" => kwargs'.op \in {"scan", "query"}]_vars

\* a call cut short after two pages, the table still whole
C26_Witness ==
    /\ Returned /\ outcome = "error"
    /\ Len(pages) = 2
    /\ Len(acc) = 2
    /\ result = <<>>
    /\ Len(store) = 3
    /\ \A i \in DOMAIN store : store[i]["InvoiceNo"] = StoredKeys[i]

\* C27: in every prepared item and every item of the table, TotalAmount is
\* Quantity times UnitPrice.
C27_TotalIsQuantityTimesPrice ==
    /\ Prepared =>
          \A i \in DOMAIN items :
              items[i]["TotalAmount"].v =
                  items[i]["Quantity"].v * items[i]["UnitPrice"].v
    /\ \A j \in DOMAIN store :
          store[j]["TotalAmount"].v =
              store[j]["Quantity"].v * store[j]["UnitPrice"].v

\* The same for the items whose rows all have one unit price.
TotalIsQuantityTimesPriceOfUniformGroups ==
    Prepared =>
        \A i \in DOMAIN items :
            (\A k \in DOMAIN GroupOf(items[i]) :
                GroupOf(items[i])[k]["unitprice"].v = GroupOf(items[i])[1]["unitprice"].v)
            => items[i]["TotalAmount"].v =
                  items[i]["Quantity"].v * items[i]["UnitPrice"].v

\* the sum of a numeric attribute over the items, of a column over rows
SumOfItems(its, attr) == SumSeq([i \in DOMAIN its |-> its[i][attr].v])
SumOfRows(rows, column) == SumSeq([i \in DOMAIN rows |-> rows[i][column].v])

\* C28: the Quantity and the TotalAmount of the prepared items add up to those
\* of the rows of the frame that have an invoice number.
C28_AggregationConservesSums ==
    Prepared =>
        /\ SumOfItems(items, "Quantity") = SumOfRows(WithInvoice(df).rows, "quantity")
        /\ SumOfItems(items, "TotalAmount") =
              SumOfRows(WithInvoice(df).rows, "total_amount")

\* The same over the rows that have an invoice number and a stock code.
SumsConservedOverKeyedRows ==
    Prepared =>
        LET keyed == SelectSeq(WithInvoice(df).rows, LAMBDA r : r["stockcode"] # NULL)
        IN  /\ SumOfItems(items, "Quantity") = SumOfRows(keyed, "quantity")
            /\ SumOfItems(items, "TotalAmount") = SumOfRows(keyed, "total_amount")

\* the pages that held no item and came with a cursor
EmptyPagesWithCursor ==
    {i \in DOMAIN pages : pages[i] = <<>> /\ requests[i].LastEvaluatedKey # ""}

\* C29: a page without items that comes with a cursor does not end a
\* paginated call: the call is still fetching or made a further request, and
\* when it has returned by a response without cursor its list holds every
\* matching item of the table, those of the later pages too.
C29_EmptyPageDoesNotStop ==
    (qpc # "idle" /\ call.paginated) =>
        /\ \A i \in EmptyPagesWithCursor : qpc = "fetching" \/ i < Len(requests)
        /\ (Returned /\ outcome = "done" /\ EmptyPagesWithCursor # {}) =>
              /\ requests[Len(requests)].LastEvaluatedKey = ""
              /\ \A j \in DOMAIN Matching :
                    \E k \in DOMAIN result : result[k] = Matching[j]

\* a filtered scan: nothing on the first page, the match on the last
C29_Witness ==
    /\ Returned /\ outcome = "done" /\ call.paginated
    /\ kwargs.op = "scan"
    /\ Len(pages) = 3
    /\ pages[1] = <<>> /\ requests[1].LastEvaluatedKey = "A"
    /\ pages[2] = <<>> /\ requests[2].LastEvaluatedKey = "B"
    /\ Len(pages[3]) = 1
    /\ result = pages[3]

\* the items of the table that are of the country of the call
OfCountry == SelectSeq(store, LAMBDA it : it["Country"] = call.country)

\* what C30 says of a call of one of the functions named in fns
BoundsBothOrNone(fns) ==
    (qpc # "idle" /\ call.fn \in fns) =>
        LET both == call.start_date # <<>> /\ call.end_date # <<>>
        IN  /\ both =>
                  kwargs.KeyConditionExpression =
                      And(eq("Country", call.country),
                          between("InvoiceDate", call.start_date, call.end_date))
            /\ ~both => kwargs.KeyConditionExpression = eq("Country", call.country)
            /\ (~both /\ Returned /\ outcome = "done") => SameBag(result, OfCountry)

\* C30: get_sales_by_country constrains InvoiceDate if and only if both
\* start_date and end_date are given; given one bound or none it asks for the
\* country alone and returns every item of the country.
C30_SalesByCountryBoundsBothOrNone ==
    BoundsBothOrNone({"get_sales_by_country", "query.get_sales_by_country"})

\* The same for get_sales_by_country of queries/sales_query.py alone.
SalesByCountryPaginatedBoundsBothOrNone ==
    BoundsBothOrNone({"get_sales_by_country"})

=============================================================================
